---- MODULE Spec2Model ----
(***************************************************************************)
(* Model of the ragu synthesis core.                                       *)
(*                                                                         *)
(*  - crates/ragu_circuits/src/s/sy.rs: the deferred evaluator of s(X, y)  *)
(*    (VirtualTable, Evaluator, eval), driven by an arbitrary circuit.     *)
(*  - crates/ragu_circuits/src/staging/builder.rs: the StageBuilder        *)
(*    type-state protocol.                                                 *)
(*                                                                         *)
(* Wire indices keep the source's 0-based numbering: a wire is a pair      *)
(* <<kind, i>> with kind in {"A","B","C","V"}; sequences are 1-based, so   *)
(* slot i lives at position i + 1.                                         *)
(***************************************************************************)
EXTENDS Integers, Sequences, FiniteSets, TLC

VARIABLES
    \* ---- inputs of eval and the Rank ----
    y, key, num_linear_constraints, R_n, R_num_coeffs,
    \* ---- sy.rs state ----
    ev,          \* the Evaluator struct
    vt,          \* the VirtualTable behind the RefCell
    pc,          \* position inside eval
    result,      \* what eval returned (or the panic it raised)
    last,        \* outcome of the driver call the circuit made last
    orig,        \* orig[i+1]: the handle returned by add for slot i is alive
    clones,      \* clones[i+1]: outstanding clones of that handle
    held,        \* allocated wires handed to the circuit
    stack,       \* saved available_b of the routines being executed (tmp)
    \* ---- history of the evaluation ----
    direct,      \* coefficients by direct expansion of every constraint
    weights,     \* multiplier used by each successful enforce_zero
    issued,      \* gates the circuit has asked for (mul, alloc without leg)
    budget,      \* calls the circuit may still make on the driver and its accumulators
    cascade,     \* most slots a single drop has resolved so far
    deferred,    \* a successful enforce_zero has named a virtual wire
    op,          \* the driver call the circuit made last
    \* ---- builder.rs state ----
    sb,          \* the StageBuilder protocol state
    \* ---- emulator.rs state ----
    em,          \* the emulator a piece of synthesis code is run on
    \* ---- step.rs state ----
    st,          \* the steps registered so far
    \* ---- _10_p.rs state ----
    pp,          \* the accumulators of compute_p
    \* ---- maybe_cast.rs state ----
    mc,          \* the call of evaluate and what it emitted
    \* ---- LinearExpression accumulators (sy.rs, common.rs) ----
    lx           \* an accumulator and the calls made on it

vars == << y, key, num_linear_constraints, R_n, R_num_coeffs, ev, vt, pc,
           result, last, orig, clones, held, stack, direct, weights, issued,
           budget, cascade, deferred, op, sb, em, st, pp, mc, lx >>

\* the state of the other components
otherVars == << em, st, pp, mc, lx >>

\* no emulator yet.  driver: "wired", "wireless", or "evaluator" for the
\* routine method of the sy Evaluator; maybe: the MaybeKind, "Always" or
\* "Empty"; out: what the last driver call returned; closures, combinators:
\* the value closures and the linear-combination closures invoked so far;
\* predicts, executes, exec_aux: the calls of the last routine on its Routine;
\* predict_on: the driver that routine handed to predict
NoOut == [ok |-> TRUE, wires |-> <<>>, err |-> "", value |-> 0]
NoEmulator ==
    [driver |-> "none", maybe |-> "none", calls |-> 0, op |-> "none",
     out |-> NoOut, closures |-> 0, combinators |-> 0,
     predicts |-> 0, executes |-> 0, exec_aux |-> 0, predict_on |-> "none"]

\* no step registered, no call made.  registered: the application indices of
\* the registrations that returned Ok, in order; op, query, n, last: the last
\* call on a StepIndex, its receiver, its argument and its result
NoSteps ==
    [registered |-> <<>>, op |-> "none", query |-> <<"Application", 0>>,
     n |-> 0, last |-> [ok |-> TRUE, value |-> 0, err |-> ""]]
\* compute_p not called.  poly, blind, msm_scalars, msm_bases, beta_power:
\* the locals of compute_p; f and terms: the arguments folded so far, in
\* order; commitment, v: the fields of the proof::P returned
NoP ==
    [phase |-> "none", beta |-> 0, u |-> 0, poly |-> <<0, 0>>, blind |-> 0,
     msm_scalars |-> <<>>, msm_bases |-> <<>>, beta_power |-> 0,
     f |-> [poly |-> <<0, 0>>, blind |-> 0, commitment |-> 0],
     terms |-> <<>>, commitment |-> 0, v |-> 0]
\* evaluate not called.  input: the integer literal; max_tuple_size: what it
\* parsed to; size, i, generics: the impl being generated and the loop over
\* its types; impls: the impls generated so far, each the type identifiers
\* T0, T1, .. of its tuple; result, err: what evaluate returned
NoCast ==
    [phase |-> "none", input |-> 0, max_tuple_size |-> 0, size |-> 0, i |-> 0,
     generics |-> <<>>, impls |-> <<>>, result |-> "none", err |-> ""]

\* no accumulator built.  kind: "TermCollector", "TermEnforcer" or
\* "WireEvalSum"; gain, terms, value, one: the fields of the structs; start:
\* the coefficient a TermEnforcer is built with; table: the VirtualTable the
\* accumulator reaches; calls: the add_term and gain calls made on it
NoLx ==
    [kind |-> "none", gain |-> 0, terms |-> <<>>, value |-> 0, one |-> 0,
     start |-> 0, calls |-> <<>>,
     table |-> [wires |-> <<>>, free |-> <<>>, a |-> <<>>, b |-> <<>>,
                c |-> <<>>, ok |-> TRUE]]

\* the other components before anything is run on them
OtherIdle ==
    em = NoEmulator /\ st = NoSteps /\ pp = NoP /\ mc = NoCast /\ lx = NoLx

syVars == << y, key, num_linear_constraints, R_n, R_num_coeffs, ev, vt, pc,
             result, last, orig, clones, held, stack, direct, weights,
             issued, budget, cascade, deferred, op >>

(***************************************************************************)
(* Bounds of the model.                                                    *)
(***************************************************************************)
\* calls a circuit makes on the driver (mul, alloc, add, enforce_zero,
\* routine, clone) and on the accumulators of its combinators (add_term, gain)
MaxCalls == 5

\* wires the final stage allocates on the driver after finish
MaxFinalWires == 1

(***************************************************************************)
(* The field F: integers modulo the prime P.                               *)
(***************************************************************************)
P == 7

Fp == 0 .. (P - 1)
FAdd(u, v) == (u + v) % P
FMul(u, v) == (u * v) % P
FNeg(u) == (P - u) % P
\* Field::invert: None for zero, the multiplicative inverse otherwise
FInvert(u) == IF u = 0 THEN <<"None">>
              ELSE <<"Some", CHOOSE z \in 1 .. (P - 1) : (u * z) % P = 1>>
\* Field::pow_vartime: square-and-multiply over the bits of the exponent
RECURSIVE FPow(_, _)
FPow(u, e) ==
    IF e = 0 THEN 1
    ELSE LET h == FPow(u, e \div 2)
         IN  IF e % 2 = 1 THEN FMul(FMul(h, h), u) ELSE FMul(h, h)

\* b^e modulo m
RECURSIVE ModPow(_, _, _)
ModPow(b, e, m) ==
    IF e = 0 THEN 1 % m
    ELSE LET h == ModPow(b, e \div 2, m)
         IN  IF e % 2 = 1 THEN (h * h * b) % m ELSE (h * h) % m

\* u^(2^bits - 1): pow_vartime on an exponent whose `bits` bits are all set;
\* the exponent is reduced modulo P - 1, the order of the multiplicative group
FPowAllOnes(u, bits) ==
    IF u = 0 THEN 0
    ELSE FPow(u, (ModPow(2, bits, P - 1) + (P - 1) - 1) % (P - 1))

\* width of the u64 that `num_linear_constraints - 1` is cast to
U64Bits == 64

(***************************************************************************)
(* VirtualTable                                                            *)
(***************************************************************************)
IsVirtual(w) == w[1] = "V"

NewVirtualWire == [refcount |-> 1, terms |-> <<>>, value |-> 0]

\* an add that also counts a reference on the virtual wire it adds to
VT_add_counting(t, w, value) ==
    CASE w[1] = "A" -> [t EXCEPT !.a[w[2] + 1] = FAdd(@, value)]
      [] w[1] = "B" -> [t EXCEPT !.b[w[2] + 1] = FAdd(@, value)]
      [] w[1] = "C" -> [t EXCEPT !.c[w[2] + 1] = FAdd(@, value)]
      [] OTHER      -> [t EXCEPT !.wires[w[2] + 1].value = FAdd(@, value),
                                 !.wires[w[2] + 1].refcount = @ + 1]

\* VirtualTable::add
VT_add(t, w, value) ==
    CASE w[1] = "A" -> [t EXCEPT !.a[w[2] + 1] = FAdd(@, value)]
      [] w[1] = "B" -> [t EXCEPT !.b[w[2] + 1] = FAdd(@, value)]
      [] w[1] = "C" -> [t EXCEPT !.c[w[2] + 1] = FAdd(@, value)]
      [] OTHER      -> [t EXCEPT !.wires[w[2] + 1].value = FAdd(@, value)]

RECURSIVE VT_free(_, _)
RECURSIVE VT_drain(_, _, _)

\* VT_drain without the recursive free of each term
RECURSIVE VT_drain_no_free(_, _, _)
VT_drain_no_free(t, terms, value) ==
    IF terms = <<>> THEN t
    ELSE VT_drain_no_free(VT_add(t, Head(terms)[1], FMul(value, Head(terms)[2])),
                          Tail(terms), value)

\* VT_drain distributing the value without the term's coefficient
RECURSIVE VT_drain_no_coeff(_, _, _)
VT_drain_no_coeff(t, terms, value) ==
    IF terms = <<>> \/ ~t.ok THEN t
    ELSE VT_drain_no_coeff(VT_free(VT_add(t, Head(terms)[1], value), Head(terms)[1]),
                           Tail(terms), value)

\* `for (wire, coeff) in terms.drain(..) { add; free }`
VT_drain(t, terms, value) ==
    IF terms = <<>> \/ ~t.ok THEN t
    ELSE LET wire == Head(terms)[1]
             coeff == Head(terms)[2]
         IN  VT_drain(VT_free(VT_add(t, wire, FMul(value, coeff)), wire),
                      Tail(terms), value)

\* a free that leaves the accumulated value in the resolved slot
RECURSIVE VT_free_keeps_value(_, _)
VT_free_keeps_value(t, w) ==
    IF ~IsVirtual(w) \/ ~t.ok THEN t
    ELSE LET i == w[2] + 1 IN
         IF ~(t.wires[i].refcount > 0) THEN [t EXCEPT !.ok = FALSE]
         ELSE LET t1 == [t EXCEPT !.wires[i].refcount = @ - 1] IN
              IF t1.wires[i].refcount # 0 THEN t1
              ELSE LET terms == t1.wires[i].terms
                       value == t1.wires[i].value
                       t2 == [t1 EXCEPT !.wires[i].terms = <<>>]
                       t3 == VT_drain(t2, terms, value)
                   IN  IF ~t3.ok THEN t3
                       ELSE [t3 EXCEPT !.free = Append(@, w[2])]

\* VirtualTable::free; ok = FALSE records a failed assertion
VT_free(t, w) ==
    IF ~IsVirtual(w) \/ ~t.ok THEN t
    ELSE LET i == w[2] + 1 IN
         IF ~(t.wires[i].refcount > 0) THEN [t EXCEPT !.ok = FALSE]
         ELSE LET t1 == [t EXCEPT !.wires[i].refcount = @ - 1] IN
              IF t1.wires[i].refcount # 0 THEN t1
              ELSE LET terms == t1.wires[i].terms
                       value == t1.wires[i].value
                       t2 == [t1 EXCEPT !.wires[i].terms = <<>>]
                       t3 == VT_drain(t2, terms, value)
                   IN  IF ~t3.ok THEN t3
                       ELSE [t3 EXCEPT !.wires[i].value = 0,
                                       !.free = Append(@, w[2])]

\* VirtualTable::update
VT_update(t, w, terms) == [t EXCEPT !.wires[w[2] + 1].terms = terms]

\* an alloc that reads the last free slot and leaves it on the list
VT_alloc_no_pop(t) ==
    IF t.free # <<>>
    THEN LET index == t.free[Len(t.free)]
             slot == t.wires[index + 1]
         IN  IF slot.refcount = 0 /\ slot.value = 0 /\ slot.terms = <<>>
             THEN <<[t EXCEPT !.wires[index + 1].refcount = 1], <<"V", index>>>>
             ELSE <<[t EXCEPT !.ok = FALSE], <<"V", index>>>>
    ELSE <<[t EXCEPT !.wires = Append(@, NewVirtualWire)],
           <<"V", Len(t.wires)>>>>

\* VirtualTable::alloc: <<table, wire index>>
VT_alloc(t) ==
    IF t.free # <<>>
    THEN LET index == t.free[Len(t.free)]
             popped == [t EXCEPT !.free = SubSeq(@, 1, Len(@) - 1)]
             slot == t.wires[index + 1]
         IN  IF slot.refcount = 0 /\ slot.value = 0 /\ slot.terms = <<>>
             THEN <<[popped EXCEPT !.wires[index + 1].refcount = 1],
                    <<"V", index>>>>
             ELSE <<[popped EXCEPT !.ok = FALSE], <<"V", index>>>>
    ELSE <<[t EXCEPT !.wires = Append(@, NewVirtualWire)],
           <<"V", Len(t.wires)>>>>

\* increment_refcount that registers nothing
IncrementRefcount_noop(t, w) == t

\* Wire::increment_refcount
IncrementRefcount(t, w) ==
    IF IsVirtual(w) THEN [t EXCEPT !.wires[w[2] + 1].refcount = @ + 1] ELSE t

\* Clone that copies the handle without counting it
WireClone_uncounted(t, w) == t

\* Clone for Wire
WireClone(t, w) ==
    IF IsVirtual(w) THEN [t EXCEPT !.wires[w[2] + 1].refcount = @ + 1] ELSE t

\* a drop that resolves the wire at once while other references remain
WireDrop_eager(t, w) ==
    IF ~IsVirtual(w) THEN t
    ELSE LET i == w[2] + 1 IN
         IF t.ok /\ t.wires[i].refcount > 1
         THEN VT_drain([t EXCEPT !.wires[i].terms = <<>>,
                                 !.wires[i].value = 0,
                                 !.wires[i].refcount = @ - 1],
                       t.wires[i].terms, t.wires[i].value)
         ELSE VT_free(t, w)

\* Drop for Wire
WireDrop(t, w) == IF IsVirtual(w) THEN VT_free(t, w) ELSE t

(***************************************************************************)
(* Linear combinations.  A combinator is the sequence of calls it makes on *)
(* the accumulator: <<"term", wire, coeff>> or <<"gain", coeff>>.          *)
(***************************************************************************)
\* TermCollector: <<table, terms, gain>> after running the calls of lc
RECURSIVE Collect(_, _, _, _)
Collect(t, terms, gain, lc) ==
    IF lc = <<>> THEN <<t, terms, gain>>
    ELSE LET call == Head(lc) IN
         IF call[1] = "term"
         THEN Collect(IncrementRefcount(t, call[2]),
                      Append(terms, <<call[2], FMul(call[3], gain)>>),
                      gain, Tail(lc))
         ELSE Collect(t, terms, FMul(gain, call[2]), Tail(lc))

\* TermEnforcer(table, coeff): the table after running the calls of lc
RECURSIVE Enforce(_, _, _)
Enforce(t, coeff, lc) ==
    IF lc = <<>> THEN t
    ELSE LET call == Head(lc) IN
         IF call[1] = "term"
         THEN Enforce(VT_add(t, call[2], FMul(call[3], coeff)), coeff, Tail(lc))
         ELSE Enforce(t, FMul(coeff, call[2]), Tail(lc))

(***************************************************************************)
(* Evaluator (the Driver implementation).  Every operation returns a       *)
(* record: ok, the evaluator and table after the call, and the wires or    *)
(* the error it returns.                                                   *)
(***************************************************************************)
None == <<>>
ONE == <<"C", 0>>

\* the bound check of mul, off by one
MulBoundHit_late(index) == index = R_n + 1

\* the bound check of Evaluator::mul
MulBoundHit(index) == index = R_n

\* Evaluator::mul
Ev_mul(e, t) ==
    LET index == e.multiplication_constraints IN
    IF MulBoundHit(index)
    THEN [ok |-> FALSE, ev |-> e, vt |-> t,
          err |-> <<"Err", "MultiplicationBoundExceeded", R_n>>]
    ELSE [ok |-> TRUE,
          ev |-> [e EXCEPT !.multiplication_constraints = @ + 1],
          vt |-> [t EXCEPT !.a = Append(@, 0), !.b = Append(@, 0),
                           !.c = Append(@, 0)],
          wires |-> << <<"A", index>>, <<"B", index>>, <<"C", index>> >>]

\* an alloc that opens a gate every time and drops the B leg
Ev_alloc_unpaired(e, t) ==
    LET m == Ev_mul(e, t) IN
    IF ~m.ok THEN m
    ELSE [ok |-> TRUE, ev |-> m.ev, vt |-> m.vt, wires |-> <<m.wires[1]>>]

\* Evaluator::alloc
Ev_alloc(e, t) ==
    IF e.available_b # None
    THEN [ok |-> TRUE, ev |-> [e EXCEPT !.available_b = None], vt |-> t,
          wires |-> <<e.available_b>>]
    ELSE LET m == Ev_mul(e, t) IN
         IF ~m.ok THEN m
         ELSE [ok |-> TRUE,
               ev |-> [m.ev EXCEPT !.available_b = m.wires[2]],
               vt |-> m.vt, wires |-> <<m.wires[1]>>]

\* an add that lets the new wire appear among its own terms
Ev_add_self_reference(e, t, lc) ==
    LET al == VT_alloc(t)
        col == Collect(al[1], <<>>, 1, lc \o << <<"term", al[2], 1>> >>)
    IN  [ok |-> TRUE, ev |-> e, vt |-> VT_update(col[1], al[2], col[2]),
         wires |-> <<al[2]>>]

\* Evaluator::add
Ev_add(e, t, lc) ==
    LET al == VT_alloc(t)
        col == Collect(al[1], <<>>, 1, lc)
    IN  [ok |-> TRUE, ev |-> e, vt |-> VT_update(col[1], al[2], col[2]),
         wires |-> <<al[2]>>]

\* the bound check of enforce_zero, off by one
LinearBoundHit_late(q) == q = R_num_coeffs + 1

\* the bound check of Evaluator::enforce_zero
LinearBoundHit(q) == q = R_num_coeffs

\* the running power stepped by y instead of its inverse
NextY_forward(e) == FMul(e.current_y, y)

\* the step of the running power of y after a constraint
NextY(e) == FMul(e.current_y, e.y_inv)

\* Evaluator::enforce_zero
Ev_enforce_zero(e, t, lc) ==
    LET q == e.linear_constraints IN
    IF LinearBoundHit(q)
    THEN [ok |-> FALSE, ev |-> e, vt |-> t,
          err |-> <<"Err", "LinearBoundExceeded", R_num_coeffs>>]
    ELSE [ok |-> TRUE,
          ev |-> [e EXCEPT !.linear_constraints = @ + 1,
                           !.current_y = NextY(e)],
          vt |-> Enforce(t, e.current_y, lc),
          coeff |-> e.current_y,
          wires |-> <<>>]

(***************************************************************************)
(* Direct evaluation of a constraint: every virtual wire in it is expanded *)
(* into allocated wires through the terms stored in the table.             *)
(***************************************************************************)
RECURSIVE DirectTerm(_, _, _, _)
RECURSIVE DirectTerms(_, _, _, _)

DirectTerm(t, d, w, k) ==
    CASE w[1] = "A" -> [d EXCEPT !.a[w[2] + 1] = FAdd(@, k)]
      [] w[1] = "B" -> [d EXCEPT !.b[w[2] + 1] = FAdd(@, k)]
      [] w[1] = "C" -> [d EXCEPT !.c[w[2] + 1] = FAdd(@, k)]
      [] OTHER      -> DirectTerms(t, d, t.wires[w[2] + 1].terms, k)

DirectTerms(t, d, terms, k) ==
    IF terms = <<>> THEN d
    ELSE DirectTerms(t, DirectTerm(t, d, Head(terms)[1], FMul(k, Head(terms)[2])),
                     Tail(terms), k)

\* net (wire, coefficient) pairs of a combinator: gains multiply forward
RECURSIVE NetTerms(_, _)
NetTerms(lc, gain) ==
    IF lc = <<>> THEN <<>>
    ELSE IF Head(lc)[1] = "term"
         THEN <<<<Head(lc)[2], FMul(Head(lc)[3], gain)>>>> \o NetTerms(Tail(lc), gain)
         ELSE NetTerms(Tail(lc), FMul(gain, Head(lc)[2]))

\* y^(q-1-j), also for j > q-1
PowerOfY(q, j) ==
    IF j <= q - 1 THEN FPow(y, q - 1 - j)
    ELSE FPow(FInvert(y)[2], j - (q - 1))

DirectConstraint(t, d, q, j, lc) ==
    DirectTerms(t, d, NetTerms(lc, 1), PowerOfY(q, j))

GrowDirect(d, n) ==
    IF n = Len(d.a) THEN d
    ELSE [a |-> Append(d.a, 0), b |-> Append(d.b, 0), c |-> Append(d.c, 0)]

(***************************************************************************)
(* What the circuit may name in a combinator.                              *)
(***************************************************************************)
Slots == 1 .. Len(vt.wires)
Alive(i) == orig[i] \/ clones[i] > 0
Handles == {<<"V", i - 1>> : i \in {j \in Slots : Alive(j)}}
Usable == held \cup {ONE} \cup Handles

Coeffs == {1, P - 1}
Gains == {2}
Calls == {<<"term", w, c>> : w \in Usable, c \in Coeffs}
            \cup {<<"gain", g>> : g \in Gains}
RECURSIVE SeqsUpTo(_, _)
SeqsUpTo(S, n) ==
    IF n = 0 THEN {<<>>}
    ELSE LET shorter == SeqsUpTo(S, n - 1)
         IN  shorter \cup {Append(q, x) : q \in shorter, x \in S}
Combinators == IF budget < 1 THEN {} ELSE SeqsUpTo(Calls, budget - 1)

Ok == <<"Ok">>
IsErr(r) == r # <<>> /\ r[1] = "Err"

Inputs == <<y, key, num_linear_constraints, R_n, R_num_coeffs>>

\* a failed assertion of the table ends the evaluation
AfterTable(t, next) == IF t.ok THEN next ELSE "panic"
ResultAfterTable(t, r) == IF t.ok THEN r ELSE <<"Panic", "refcount">>

(***************************************************************************)
(* eval                                                                    *)
(***************************************************************************)
Rank_n == 2
Rank_num_coeffs == 3

\* inputs of eval: every key and count at y = 0, a few at y # 0
Ys == {3}
Keys == {2}
Qs == {0, 3}

EmptyTable == [wires |-> <<>>, free |-> <<>>, a |-> <<>>, b |-> <<>>,
               c |-> <<>>, ok |-> TRUE]
EmptyDirect == [a |-> <<>>, b |-> <<>>, c |-> <<>>]
NoEvaluator == [multiplication_constraints |-> 0, linear_constraints |-> 0,
                y_inv |-> 0, current_y |-> 0, available_b |-> None]

SyStart ==
    /\ ev = NoEvaluator
    /\ vt = EmptyTable
    /\ pc = "start"
    /\ result = <<>>
    /\ last = Ok
    /\ orig = <<>>
    /\ clones = <<>>
    /\ held = {}
    /\ stack = <<>>
    /\ direct = EmptyDirect
    /\ weights = <<>>
    /\ issued = 0
    /\ cascade = 0
    /\ deferred = FALSE
    /\ op = "none"

SyInit ==
    /\ \/ y = 0 /\ key \in Fp /\ num_linear_constraints \in 0 .. (Rank_num_coeffs + 1)
       \/ y \in Ys /\ key \in Keys /\ num_linear_constraints \in Qs
    /\ R_n = Rank_n
    /\ R_num_coeffs = Rank_num_coeffs
    /\ budget = MaxCalls
    /\ SyStart

\* the y = 0 branch writing the one into the a array
EvalAtZero_wrong_slot(t) == [t EXCEPT !.a = Append(@, 1)]

\* `if y == F::ZERO { sy.backward().c.push(F::ONE); return Ok(sy) }`
EvalAtZero(t) == [t EXCEPT !.c = Append(@, 1)]

\* the struct literal of eval; wrapped: the exponent underflowed and wrapped
NewEvaluator(wrapped) ==
    [multiplication_constraints |-> 0,
     linear_constraints |-> 0,
     y_inv |-> FInvert(y)[2],
     current_y |-> IF wrapped THEN FPowAllOnes(y, U64Bits)
                   ELSE FPow(y, num_linear_constraints - 1),
     available_b |-> None]

\* the key constraint with the key not negated
KeyConstraint_unnegated(key_wire, one) ==
    << <<"term", key_wire, 1>>, <<"term", one, key>> >>

\* `lc.add(&key_wire).add_term(&one, Coeff::NegativeArbitrary(key))`
KeyConstraint(key_wire, one) ==
    << <<"term", key_wire, 1>>, <<"term", one, FNeg(key)>> >>

\* `lc.add(w)`
Single(w) == << <<"term", w, 1>> >>

NamesVirtual(lc) ==
    \E k \in 1 .. Len(lc) : lc[k][1] = "term" /\ IsVirtual(lc[k][2])

EvalZero ==
    /\ pc = "start"
    /\ y = 0
    /\ vt' = EvalAtZero(vt)
    /\ result' = Ok
    /\ pc' = "done"
    /\ UNCHANGED <<ev, last, orig, clones, held, stack, direct, weights, issued>>
    /\ UNCHANGED <<Inputs, cascade, deferred, sb, otherVars>>
    /\ UNCHANGED budget
    /\ UNCHANGED op

\* `num_linear_constraints - 1` underflows for 0: an overflow panic in a
\* build with overflow checks, a wrapped exponent otherwise
EvalUnderflowPanic ==
    /\ pc = "start"
    /\ y # 0
    /\ num_linear_constraints = 0
    /\ pc' = "panic"
    /\ result' = <<"Panic", "overflow">>
    /\ UNCHANGED <<ev, vt, last, orig, clones, held, stack, direct, weights, issued>>
    /\ UNCHANGED <<Inputs, cascade, deferred, sb, otherVars>>
    /\ UNCHANGED budget
    /\ UNCHANGED op

\* construction of the evaluator, the key gate and the key constraint
EvalBegin ==
    /\ pc = "start"
    /\ y # 0
    /\ LET e0 == NewEvaluator(num_linear_constraints = 0)
           m == Ev_mul(e0, vt)
           z == IF m.ok
                THEN Ev_enforce_zero(m.ev, m.vt, KeyConstraint(m.wires[1], m.wires[3]))
                ELSE m
       IN  /\ ev' = z.ev
           /\ vt' = z.vt
           /\ pc' = IF z.ok THEN "circuit" ELSE "done"
           /\ result' = IF z.ok THEN result ELSE z.err
           /\ direct' = IF z.ok
                        THEN DirectConstraint(m.vt, GrowDirect(direct, 1),
                                 num_linear_constraints, 0,
                                 KeyConstraint(m.wires[1], m.wires[3]))
                        ELSE direct
           /\ weights' = IF z.ok THEN <<z.coeff>> ELSE weights
    /\ UNCHANGED <<last, orig, clones, held, stack, issued>>
    /\ UNCHANGED <<Inputs, cascade, deferred, sb, otherVars>>
    /\ UNCHANGED budget
    /\ UNCHANGED op

InCircuit == pc = "circuit" /\ ~IsErr(last)

\* the circuit calls dr.mul
CMul ==
    /\ InCircuit
    /\ LET r == Ev_mul(ev, vt) IN
       /\ ev' = r.ev
       /\ vt' = r.vt
       /\ last' = IF r.ok THEN Ok ELSE r.err
       /\ held' = IF r.ok THEN held \cup {r.wires[1], r.wires[2], r.wires[3]}
                  ELSE held
       /\ direct' = GrowDirect(direct, r.ev.multiplication_constraints)
    /\ issued' = issued + 1
    /\ UNCHANGED <<pc, result, orig, clones, stack, weights>>
    /\ UNCHANGED <<Inputs, cascade, deferred, sb, otherVars>>
    /\ budget >= 1 /\ budget' = budget - 1
    /\ op' = "mul"

\* the circuit calls dr.alloc
CAlloc ==
    /\ InCircuit
    /\ LET r == Ev_alloc(ev, vt) IN
       /\ ev' = r.ev
       /\ vt' = r.vt
       /\ last' = IF r.ok THEN Ok ELSE r.err
       /\ held' = IF r.ok THEN held \cup {r.wires[1]} ELSE held
       /\ direct' = GrowDirect(direct, r.ev.multiplication_constraints)
    /\ issued' = IF ev.available_b = None THEN issued + 1 ELSE issued
    /\ UNCHANGED <<pc, result, orig, clones, stack, weights>>
    /\ UNCHANGED <<Inputs, cascade, deferred, sb, otherVars>>
    /\ budget >= 1 /\ budget' = budget - 1
    /\ op' = "alloc"

\* handle bookkeeping for the wire add returns
WithSlot(f, i, v) == IF i <= Len(f) THEN [f EXCEPT ![i] = v] ELSE Append(f, v)

\* the circuit calls dr.add
CAdd(lc) ==
    /\ InCircuit
    /\ LET r == Ev_add(ev, vt, lc)
           i == r.wires[1][2] + 1
       IN  /\ ev' = r.ev
           /\ vt' = r.vt
           /\ orig' = WithSlot(orig, i, TRUE)
           /\ clones' = IF i <= Len(clones) THEN clones ELSE Append(clones, 0)
           /\ pc' = AfterTable(r.vt, pc)
           /\ result' = ResultAfterTable(r.vt, result)
    /\ last' = Ok
    /\ UNCHANGED <<held, stack, direct, weights, issued>>
    /\ UNCHANGED <<Inputs, cascade, deferred, sb, otherVars>>
    /\ budget' = budget - (1 + Len(lc))
    /\ op' = "add"

\* the circuit calls dr.enforce_zero
CEnforceZero(lc) ==
    /\ InCircuit
    /\ LET r == Ev_enforce_zero(ev, vt, lc) IN
       /\ ev' = r.ev
       /\ vt' = r.vt
       /\ last' = IF r.ok THEN Ok ELSE r.err
       /\ direct' = IF r.ok
                    THEN DirectConstraint(vt, direct, num_linear_constraints,
                                          ev.linear_constraints, lc)
                    ELSE direct
       /\ weights' = IF r.ok THEN Append(weights, r.coeff) ELSE weights
    /\ UNCHANGED <<pc, result, orig, clones, held, stack, issued>>
    /\ UNCHANGED <<Inputs, cascade, sb, otherVars>>
    /\ deferred' = (deferred \/ (Ev_enforce_zero(ev, vt, lc).ok /\ NamesVirtual(lc)))
    /\ budget' = budget - (1 + Len(lc))
    /\ op' = "enforce_zero"

\* slots resolved by one drop, against the most seen so far
Resolved(t, u, most) ==
    IF Len(u.free) - Len(t.free) > most THEN Len(u.free) - Len(t.free) ELSE most

HandlesLive == pc \in {"circuit", "outputs", "dropping", "unwind"}

\* a handle of virtual wire i - 1 is cloned
CClone(i) ==
    /\ InCircuit
    /\ Alive(i)
    /\ vt' = WireClone(vt, <<"V", i - 1>>)
    /\ clones' = [clones EXCEPT ![i] = @ + 1]
    /\ UNCHANGED <<ev, pc, result, last, orig, held, stack, direct, weights, issued>>
    /\ UNCHANGED <<Inputs, cascade, deferred, sb, otherVars>>
    /\ budget >= 1 /\ budget' = budget - 1
    /\ op' = "clone"

\* the handle add returned for virtual wire i - 1 is dropped
DropOrig(i) ==
    /\ HandlesLive
    /\ orig[i]
    /\ LET t == WireDrop(vt, <<"V", i - 1>>) IN
       /\ vt' = t
       /\ pc' = AfterTable(t, pc)
       /\ result' = ResultAfterTable(t, result)
    /\ orig' = [orig EXCEPT ![i] = FALSE]
    /\ UNCHANGED <<ev, last, clones, held, stack, direct, weights, issued>>
    /\ UNCHANGED <<Inputs, deferred, sb, otherVars>>
    /\ cascade' = Resolved(vt, WireDrop(vt, <<"V", i - 1>>), cascade)
    /\ UNCHANGED budget
    /\ UNCHANGED op

\* a clone of the handle of virtual wire i - 1 is dropped
DropClone(i) ==
    /\ HandlesLive
    /\ clones[i] > 0
    /\ LET t == WireDrop(vt, <<"V", i - 1>>) IN
       /\ vt' = t
       /\ pc' = AfterTable(t, pc)
       /\ result' = ResultAfterTable(t, result)
    /\ clones' = [clones EXCEPT ![i] = @ - 1]
    /\ UNCHANGED <<ev, last, orig, held, stack, direct, weights, issued>>
    /\ UNCHANGED <<Inputs, deferred, sb, otherVars>>
    /\ cascade' = Resolved(vt, WireDrop(vt, <<"V", i - 1>>), cascade)
    /\ UNCHANGED budget
    /\ UNCHANGED op

\* a routine that saves the pending leg and leaves it in place as well
RoutineEnter_no_take(predicted) ==
    /\ InCircuit
    /\ ev' = ev
    /\ IF predicted = "Err"
       THEN /\ last' = <<"Err", "Routine", 0>>
            /\ stack' = stack
       ELSE /\ last' = Ok
            /\ stack' = Append(stack, ev.available_b)
    /\ UNCHANGED <<vt, pc, result, orig, clones, held, direct, weights, issued>>
    /\ UNCHANGED <<Inputs, cascade, deferred, sb, otherVars>>
    /\ budget >= 1 /\ budget' = budget - 1
    /\ op' = "routine"

\* Evaluator::routine up to the call of execute
RoutineEnter(predicted) ==
    /\ InCircuit
    /\ ev' = [ev EXCEPT !.available_b = None]
    /\ IF predicted = "Err"
       THEN /\ last' = <<"Err", "Routine", 0>>
            /\ stack' = stack
       ELSE /\ last' = Ok
            /\ stack' = Append(stack, ev.available_b)
    /\ UNCHANGED <<vt, pc, result, orig, clones, held, direct, weights, issued>>
    /\ UNCHANGED <<Inputs, cascade, deferred, sb, otherVars>>
    /\ budget >= 1 /\ budget' = budget - 1
    /\ op' = "routine"

\* a routine that returns without restoring the saved leg
RoutineReturn_no_restore ==
    /\ InCircuit
    /\ stack # <<>>
    /\ ev' = ev
    /\ stack' = SubSeq(stack, 1, Len(stack) - 1)
    /\ UNCHANGED <<vt, pc, result, last, orig, clones, held, direct, weights, issued>>
    /\ UNCHANGED <<Inputs, cascade, deferred, sb, otherVars>>
    /\ UNCHANGED budget
    /\ UNCHANGED op

\* Evaluator::routine after execute returned Ok
RoutineReturn ==
    /\ InCircuit
    /\ stack # <<>>
    /\ ev' = [ev EXCEPT !.available_b = stack[Len(stack)]]
    /\ stack' = SubSeq(stack, 1, Len(stack) - 1)
    /\ UNCHANGED <<vt, pc, result, last, orig, clones, held, direct, weights, issued>>
    /\ UNCHANGED <<Inputs, cascade, deferred, sb, otherVars>>
    /\ UNCHANGED budget
    /\ UNCHANGED op

\* circuit.witness and io.write returned Ok
CircuitReturn ==
    /\ InCircuit
    /\ stack = <<>>
    /\ pc' = "outputs"
    /\ UNCHANGED <<ev, vt, result, last, orig, clones, held, stack, direct,
                   weights, issued>>
    /\ UNCHANGED <<Inputs, cascade, deferred, sb, otherVars>>
    /\ UNCHANGED budget
    /\ UNCHANGED op

\* circuit.witness or io.write returned Err, propagated by `?`
Abort ==
    /\ pc = "circuit"
    /\ pc' = "unwind"
    /\ result' = IF IsErr(last) THEN last ELSE <<"Err", "Circuit", 0>>
    /\ UNCHANGED <<ev, vt, last, orig, clones, held, stack, direct, weights, issued>>
    /\ UNCHANGED <<Inputs, cascade, deferred, sb, otherVars>>
    /\ UNCHANGED budget
    /\ UNCHANGED op

\* one iteration of `for output in outputs`
Output(w) ==
    /\ pc = "outputs"
    /\ LET r == Ev_enforce_zero(ev, vt, Single(w)) IN
       /\ ev' = r.ev
       /\ vt' = r.vt
       /\ pc' = IF r.ok THEN pc ELSE "unwind"
       /\ result' = IF r.ok THEN result ELSE r.err
       /\ direct' = IF r.ok
                    THEN DirectConstraint(vt, direct, num_linear_constraints,
                                          ev.linear_constraints, Single(w))
                    ELSE direct
       /\ weights' = IF r.ok THEN Append(weights, r.coeff) ELSE weights
    /\ UNCHANGED <<last, orig, clones, held, stack, issued>>
    /\ UNCHANGED <<Inputs, cascade, sb, otherVars>>
    /\ deferred' = (deferred \/ (Ev_enforce_zero(ev, vt, Single(w)).ok /\ NamesVirtual(Single(w))))
    /\ budget >= 1 /\ budget' = budget - 1
    /\ UNCHANGED op

\* the final constraint without the assertion on the count after it
FinalOne_unasserted ==
    /\ pc = "outputs"
    /\ LET r == Ev_enforce_zero(ev, vt, Single(<<"C", 0>>)) IN
       /\ ev' = r.ev
       /\ vt' = r.vt
       /\ pc' = IF ~r.ok THEN "unwind"
                ELSE "dropping"
       /\ result' = IF ~r.ok THEN r.err
                    ELSE result
       /\ direct' = IF r.ok
                    THEN DirectConstraint(vt, direct, num_linear_constraints,
                                          ev.linear_constraints, Single(<<"C", 0>>))
                    ELSE direct
       /\ weights' = IF r.ok THEN Append(weights, r.coeff) ELSE weights
    /\ UNCHANGED <<last, orig, clones, held, stack, issued>>
    /\ UNCHANGED <<Inputs, cascade, deferred, sb, otherVars>>
    /\ UNCHANGED budget
    /\ UNCHANGED op

\* `evaluator.enforce_zero(|lc| lc.add(&one))?` and the assertion after it
FinalOne ==
    /\ pc = "outputs"
    /\ LET r == Ev_enforce_zero(ev, vt, Single(<<"C", 0>>)) IN
       /\ ev' = r.ev
       /\ vt' = r.vt
       /\ pc' = IF ~r.ok THEN "unwind"
                ELSE IF r.ev.linear_constraints = num_linear_constraints
                     THEN "dropping" ELSE "panic"
       /\ result' = IF ~r.ok THEN r.err
                    ELSE IF r.ev.linear_constraints = num_linear_constraints
                         THEN result ELSE <<"Panic", "linear_constraints">>
       /\ direct' = IF r.ok
                    THEN DirectConstraint(vt, direct, num_linear_constraints,
                                          ev.linear_constraints, Single(<<"C", 0>>))
                    ELSE direct
       /\ weights' = IF r.ok THEN Append(weights, r.coeff) ELSE weights
    /\ UNCHANGED <<last, orig, clones, held, stack, issued>>
    /\ UNCHANGED <<Inputs, cascade, deferred, sb, otherVars>>
    /\ UNCHANGED budget
    /\ UNCHANGED op

NoHandles == \A i \in 1 .. Len(orig) : ~Alive(i)

\* the assertion of eval on the table taken out of the RefCell
TableClean(t) == Len(t.free) = Len(t.wires)

\* every handle and the evaluator are gone: the table is inspected
EvalEnd ==
    /\ pc \in {"dropping", "unwind"}
    /\ NoHandles
    /\ IF pc = "unwind"
       THEN pc' = "done" /\ result' = result
       ELSE IF TableClean(vt)
            THEN pc' = "done" /\ result' = Ok
            ELSE pc' = "panic" /\ result' = <<"Panic", "leak">>
    /\ UNCHANGED <<ev, vt, last, orig, clones, held, stack, direct, weights, issued>>
    /\ UNCHANGED <<Inputs, cascade, deferred, sb, otherVars>>
    /\ UNCHANGED budget
    /\ UNCHANGED op

(***************************************************************************)
(* staging/builder.rs: StageBuilder<Current, Target>.  The type parameters *)
(* are kept as the fields current and target; a call the type checker      *)
(* rejects is a disabled action.                                           *)
(***************************************************************************)
\* the stage types of a program: () and four stages declaring their Parent
Unit == 0
StageIds == 1 .. 4
Parent == [s \in StageIds |-> CASE s = 1 -> Unit [] s = 2 -> 1
                                [] s = 3 -> 2 [] s = 4 -> 1]
\* Stage::values of each stage
Values == [s \in StageIds |-> CASE s = 1 -> 2 [] s = 2 -> 1
                                [] s = 3 -> 0 [] s = 4 -> 0]
\* wires of the gadget the Default instance of each stage produces
DefaultWires == [s \in StageIds |-> CASE s = 1 -> 2 [] s = 2 -> 1
                                      [] s = 3 -> 1 [] s = 4 -> 0]
\* constraints the witness logic of each stage enforces on a real driver
StageConstraints == [s \in StageIds |-> CASE s = 1 -> 0 [] s = 2 -> 1
                                          [] s = 3 -> 1 [] s = 4 -> 0]

\* the builder, the guards it returned, and the driver behind it: allocs is
\* the number of wires the driver has handed out, log the calls made on it
\* (<<"alloc", wire, value>>, <<"enforce_equal", live, stage_wire>>,
\* <<"enforce_zero", stage, k>>); counts and skipped record the reservations
NoBuilder == [phase |-> "none", current |-> Unit, target |-> Unit,
              reserved |-> <<>>, guards |-> <<>>, allocs |-> 0,
              result |-> Ok,
              log |-> <<>>, counts |-> <<>>, skipped |-> <<>>,
              final |-> <<>>, witness |-> 1]

\* StageBuilder::new
SbNew(target) ==
    /\ sb.phase = "none"
    /\ sb' = [sb EXCEPT !.phase = "building", !.current = Unit,
                        !.target = target]
    /\ UNCHANGED <<syVars, otherVars>>

\* a bound that accepts every stage
CanFollow_any(next, current) == TRUE

\* the bound `Next: Stage<D::F, R, Parent = Current>`
CanFollow(next, current) == Parent[next] = current

\* a driver numbering the wires of every reservation from one
AllocatedWires_restart(from, to) == [k \in 1 .. (to - from + 1) |-> k]

\* the wires driver.alloc returns for calls first .. last
AllocatedWires(from, to) == [k \in 1 .. (to - from + 1) |-> from + k - 1]

\* the placeholder of `self.driver.alloc(|| Ok(Coeff::Zero))`
Zero == 0

\* the placeholder taken from the stage instead
ReservationLog_stage_value(from, n) ==
    [k \in 1 .. n |-> <<"alloc", from + k, from + k>>]

\* the calls of the alloc loop of configure_stage: n wires after wire `from`
ReservationLog(from, n) == [k \in 1 .. n |-> <<"alloc", from + k, Zero>>]

\* a guard as configure_stage returns it
NewGuard(next, wires) ==
    [stage |-> next, stage_wires |-> wires, status |-> "held",
     outcome |-> <<>>, gadget |-> <<>>, values |-> <<>>]

\* a count that follows the witness of the run
CountedWires_of_witness(shape, witness) == shape + witness - 1

\* `stage.witness(&mut emulator, Empty)?.num_wires()`: the wires of the gadget
\* of the stage instance; the emulator is given Empty, not the witness
CountedWires(shape, witness) == shape

\* the bound check letting one wire too many through
ExceedsValues_off_by_one(next, num_wires) == num_wires > Values[next] + 1

\* `if num_wires > Next::values()`
ExceedsValues(next, num_wires) == num_wires > Values[next]

\* the body of configure_stage. shape: the gadget the stage instance produces
\* under the counting emulator (its number of wires, -1 for Err); fail_at: the
\* alloc call of the loop at which the driver fails, 0 for none.
Configure(b, next, shape, fail_at, keep_guard) ==
    LET counted == CountedWires(shape, b.witness) IN
    IF shape < 0
    THEN [b EXCEPT !.phase = "failed", !.result = <<"Err", "Witness">>]
    ELSE IF ExceedsValues(next, counted)
    THEN [b EXCEPT !.phase = "failed",
                   !.result = <<"Err", "MultiplicationBoundExceeded",
                                <<"num_multiplications", next>>>>]
    ELSE IF fail_at # 0
    THEN [b EXCEPT !.phase = "failed", !.allocs = @ + fail_at - 1,
                   !.log = @ \o ReservationLog(b.allocs, fail_at - 1),
                   !.result = <<"Err", "Driver">>]
    ELSE LET guard == NewGuard(next,
                        AllocatedWires(b.allocs + 1, b.allocs + counted))
         IN  [b EXCEPT !.current = next,
                       !.reserved = Append(@, next),
                       !.allocs = @ + counted,
                       !.log = @ \o ReservationLog(b.allocs, counted),
                       !.counts = Append(@, shape),
                       !.guards = IF keep_guard THEN Append(@, guard) ELSE @,
                       !.skipped = IF keep_guard THEN @ ELSE Append(@, guard)]

Counts(next) == (-1) .. (Values[next] + 1)
FailAts(counted) == IF counted < 0 THEN {0} ELSE 0 .. counted

\* StageBuilder::configure_stage
ConfigureStage(next, counted, fail_at) ==
    /\ sb.phase = "building"
    /\ CanFollow(next, sb.current)
    /\ sb' = Configure(sb, next, counted, fail_at, TRUE)
    /\ UNCHANGED <<syVars, otherVars>>

\* StageBuilder::add_stage
AddStage(next, fail_at) ==
    /\ sb.phase = "building"
    /\ CanFollow(next, sb.current)
    /\ sb' = Configure(sb, next, DefaultWires[next], fail_at, TRUE)
    /\ UNCHANGED <<syVars, otherVars>>

\* StageBuilder::skip_stage
SkipStage(next, fail_at) ==
    /\ sb.phase = "building"
    /\ CanFollow(next, sb.current)
    /\ sb' = Configure(sb, next, DefaultWires[next], fail_at, FALSE)
    /\ UNCHANGED <<syVars, otherVars>>

\* `impl StageBuilder<Finished, Finished>`
CanFinish(current, target) == current = target

\* StageBuilder::finish
Finish ==
    /\ sb.phase = "building"
    /\ CanFinish(sb.current, sb.target)
    /\ sb' = [sb EXCEPT !.phase = "finished"]
    /\ UNCHANGED <<syVars, otherVars>>

\* the builder goes out of scope without finish
BuilderDropped ==
    /\ sb.phase = "building"
    /\ sb' = [sb EXCEPT !.phase = "dropped"]
    /\ UNCHANGED <<syVars, otherVars>>

(***************************************************************************)
(* StageGuard: the guards are consumed on the driver once the builder has  *)
(* given it back.                                                          *)
(***************************************************************************)
\* the builder no longer borrows the driver
DriverFree == sb.phase \in {"finished", "dropped", "failed"}

\* a guard that can be used again
CanConsume_again(g) == TRUE

\* `self`: a guard is moved into enforced or unenforced, or dropped
CanConsume(g) == sb.guards[g].status = "held"

\* witnesses a stage may be given, and the i-th value its logic computes
Witnesses == {1, 2}
WitnessValue(w, i) == 10 * w + i

\* a gadget whose values slipped by one position
WitnessValues_shifted(w, n) == [i \in 1 .. n |-> WitnessValue(w, i + 1)]

\* the values of the gadget the stage's witness logic computes
WitnessValues(w, n) == [i \in 1 .. n |-> WitnessValue(w, i)]

InvalidWitness == <<"Err", "InvalidWitness", "not enough stage wires">>

Consumed(b, g, how, outcome, gadget, values) ==
    [b EXCEPT !.guards[g].status = how,
              !.guards[g].outcome = outcome,
              !.guards[g].gadget = gadget,
              !.guards[g].values = values]

\* an injector handing out the stage wires from the last to the first
Injected_reversed(stage_wires, live) ==
    IF live > Len(stage_wires) THEN InvalidWitness
    ELSE [i \in 1 .. live |-> stage_wires[Len(stage_wires) + 1 - i]]

\* an injector that runs short of stage wires and repeats the last one
Injected_repeat_last(stage_wires, live) ==
    IF live > Len(stage_wires) /\ stage_wires = <<>> THEN InvalidWitness
    ELSE [i \in 1 .. live |->
             stage_wires[IF i > Len(stage_wires) THEN Len(stage_wires) ELSE i]]

\* `computed_gadget.map(&mut injector)` with StageWireInjector::convert_wire:
\* the wires of the returned gadget, or the error of the first wire that
\* finds the iterator of stage wires empty
Injected(stage_wires, live) ==
    IF live > Len(stage_wires) THEN InvalidWitness
    ELSE SubSeq(stage_wires, 1, live)

\* the body of StageGuard::unenforced. live: the number of wires of the gadget
\* the stage's witness produces on the wireless emulator, -1 for Err
UnenforcedBody(b, g, live) ==
    IF live < 0
    THEN Consumed(b, g, "unenforced", <<"Err", "Witness">>, <<>>, <<>>)
    ELSE LET wires == Injected(b.guards[g].stage_wires, live) IN
         IF wires = InvalidWitness
         THEN Consumed(b, g, "unenforced", InvalidWitness, <<>>, <<>>)
         ELSE Consumed(b, g, "unenforced", Ok, wires,
                       WitnessValues(b.witness, live))

\* StageGuard::unenforced
Unenforced(g, live) ==
    /\ DriverFree
    /\ CanConsume(g)
    /\ sb' = UnenforcedBody(sb, g, live)
    /\ UNCHANGED <<syVars, otherVars>>

\* the calls the stage's witness logic makes on the real driver: one alloc
\* per wire of its gadget, then its internal constraints
WitnessLog(stage, from, w, n, complete) ==
    [i \in 1 .. n |-> <<"alloc", from + i, WitnessValue(w, i)>>]
        \o [k \in 1 .. (IF complete THEN StageConstraints[stage] ELSE 0) |->
               <<"enforce_zero", stage, k>>]

\* equality constraints in the other order
EqualityLog_backwards(live_wires, stage_wires, n) ==
    [i \in 1 .. n |-> <<"enforce_equal", live_wires[n + 1 - i], stage_wires[i]>>]

\* the calls of EnforcingInjector::convert_wire for the first n wires
EqualityLog(live_wires, stage_wires, n) ==
    [i \in 1 .. n |-> <<"enforce_equal", live_wires[i], stage_wires[i]>>]

\* the body of StageGuard::enforced. live: the number of wires of the gadget
\* the stage's witness produces on the real driver (-1: the witness logic
\* fails before its first call); wit_fail: the alloc of the witness logic the
\* driver refuses; eq_fail: the enforce_equal the driver refuses (0 for none)
EnforcedBody(b, g, live, wit_fail, eq_fail) ==
    LET gd == b.guards[g]
        sw == gd.stage_wires
        lw == AllocatedWires(b.allocs + 1, b.allocs + live)
    IN  IF live < 0
        THEN Consumed(b, g, "enforced", <<"Err", "Witness">>, <<>>, <<>>)
        ELSE IF wit_fail # 0
        THEN [Consumed(b, g, "enforced", <<"Err", "Driver">>, <<>>, <<>>)
                EXCEPT !.allocs = @ + wit_fail - 1,
                       !.log = @ \o WitnessLog(gd.stage, b.allocs,
                                               b.witness, wit_fail - 1, FALSE)]
        ELSE LET ran == [b EXCEPT !.allocs = @ + live,
                                  !.log = @ \o WitnessLog(gd.stage, b.allocs,
                                                  b.witness, live, TRUE)]
             IN  IF eq_fail # 0
                 THEN [Consumed(ran, g, "enforced", <<"Err", "Driver">>,
                                <<>>, <<>>)
                         EXCEPT !.log = @ \o EqualityLog(lw, sw, eq_fail - 1)]
                 ELSE IF live > Len(sw)
                 THEN [Consumed(ran, g, "enforced", InvalidWitness, <<>>, <<>>)
                         EXCEPT !.log = @ \o EqualityLog(lw, sw, Len(sw))]
                 ELSE [Consumed(ran, g, "enforced", Ok, SubSeq(sw, 1, live),
                                WitnessValues(b.witness, live))
                         EXCEPT !.log = @ \o EqualityLog(lw, sw, live)]

Lives(g) == (-1) .. (Len(sb.guards[g].stage_wires) + 1)
WitFails(live) == IF live < 1 THEN {0} ELSE 0 .. 1
EqFails(g, live, wit_fail) ==
    IF live < 0 \/ wit_fail # 0 THEN {0}
    ELSE 0 .. (IF live > Len(sb.guards[g].stage_wires)
               THEN Len(sb.guards[g].stage_wires) ELSE live)

\* StageGuard::enforced
Enforced(g, live, wit_fail, eq_fail) ==
    /\ DriverFree
    /\ CanConsume(g)
    /\ sb' = EnforcedBody(sb, g, live, wit_fail, eq_fail)
    /\ UNCHANGED <<syVars, otherVars>>

\* a guard goes out of scope without being consumed
GuardDropped(g) ==
    /\ CanConsume(g)
    /\ sb' = [sb EXCEPT !.guards[g].status = "dropped"]
    /\ UNCHANGED <<syVars, otherVars>>

\* the final stage allocates a wire on the driver finish returned
FinalAlloc ==
    /\ sb.phase = "finished"
    /\ Len(sb.final) < MaxFinalWires
    /\ sb' = [sb EXCEPT !.allocs = @ + 1,
                        !.final = Append(@, sb.allocs + 1),
                        !.log = Append(@, <<"alloc", sb.allocs + 1,
                                            WitnessValue(sb.witness, 1)>>)]
    /\ UNCHANGED <<syVars, otherVars>>

StageInit ==
    /\ y = 0 /\ key = 0 /\ num_linear_constraints = 1
    /\ R_n = Rank_n
    /\ R_num_coeffs = Rank_num_coeffs
    /\ budget = 0
    /\ SyStart
    /\ \E w \in Witnesses : sb = [NoBuilder EXCEPT !.witness = w]
    /\ OtherIdle

StageNext ==
    \/ \E target \in StageIds \cup {Unit} : SbNew(target)
    \/ \E next \in StageIds : \E counted \in Counts(next) :
           \E fail_at \in FailAts(counted) : ConfigureStage(next, counted, fail_at)
    \/ \E next \in StageIds : \E fail_at \in FailAts(DefaultWires[next]) :
           AddStage(next, fail_at)
    \/ \E next \in StageIds : \E fail_at \in FailAts(DefaultWires[next]) :
           SkipStage(next, fail_at)
    \/ Finish
    \/ BuilderDropped
    \/ \E g \in 1 .. Len(sb.guards) : \E live \in Lives(g) :
           Unenforced(g, live)
    \/ \E g \in 1 .. Len(sb.guards) : \E live \in Lives(g) :
           \E wit_fail \in WitFails(live) :
           \E eq_fail \in EqFails(g, live, wit_fail) :
               Enforced(g, live, wit_fail, eq_fail)
    \/ \E g \in 1 .. Len(sb.guards) : GuardDropped(g)
    \/ FinalAlloc

SpecStage == StageInit /\ [][StageNext]_vars

(***************************************************************************)
(* eval of one particular circuit: two multiplication gates, one virtual   *)
(* wire c1 - c2 of their outputs, that wire enforced to zero three times,  *)
(* no output wires.                                                        *)
(***************************************************************************)
\* the combinator of the circuit's add: outputs with coefficients 1 and -1
OutputDifference == << <<"term", <<"C", 1>>, 1>>, <<"term", <<"C", 2>>, P - 1>> >>

ScenarioInit ==
    /\ y \in Fp \ {0}
    /\ key \in Fp
    /\ R_n \in {2, 3}
    /\ R_num_coeffs \in {3, 5}
    /\ num_linear_constraints \in {3, 5}
    /\ budget = 2 + (1 + Len(OutputDifference)) + 3 * (1 + 1)
    /\ SyStart
    /\ sb = NoBuilder
    /\ OtherIdle

ScenarioNext ==
    \/ EvalBegin
    \/ issued < 2 /\ CMul
    \/ issued = 2 /\ Len(vt.wires) = 0 /\ CAdd(OutputDifference)
    \/ /\ Len(vt.wires) = 1 /\ orig[1] /\ Len(weights) < 4
       /\ CEnforceZero(Single(<<"V", 0>>))
    \/ Len(weights) = 4 /\ CircuitReturn
    \/ IsErr(last) /\ Abort
    \/ FinalOne
    \/ /\ Len(orig) = 1
       /\ pc # "circuit" \/ Len(weights) = 4 \/ IsErr(last)
       /\ DropOrig(1)
    \/ EvalEnd

SpecScenario == ScenarioInit /\ [][ScenarioNext]_vars

Init == SyInit /\ sb = NoBuilder /\ OtherIdle

Next ==
    \/ EvalZero
    \/ EvalUnderflowPanic
    \/ EvalBegin
    \/ CMul
    \/ CAlloc
    \/ \E lc \in Combinators : CAdd(lc)
    \/ \E lc \in Combinators : CEnforceZero(lc)
    \/ \E i \in Slots : CClone(i)
    \/ \E i \in Slots : DropOrig(i)
    \/ \E i \in Slots : DropClone(i)
    \/ \E predicted \in {"Known", "Unknown", "Err"} : RoutineEnter(predicted)
    \/ RoutineReturn
    \/ CircuitReturn
    \/ Abort
    \/ \E w \in Usable : Output(w)
    \/ FinalOne
    \/ EvalEnd

Spec == Init /\ [][Next]_vars

(***************************************************************************)
(* Properties of the deferred evaluator                                    *)
(***************************************************************************)
\* times the index of slot i is stored in the term lists of the table
StoredRefs(i) ==
    Cardinality(UNION {
        {<<j, k>> : k \in {n \in 1 .. Len(vt.wires[j].terms) :
                              vt.wires[j].terms[n][1] = <<"V", i - 1>>}}
        : j \in Slots})

LiveHandles(i) == (IF orig[i] THEN 1 ELSE 0) + clones[i]

Started == pc # "start" /\ y # 0 /\ result # <<"Panic", "overflow">>

\* C1 (zero-leak): once no wire handle is left, every virtual-wire slot that
\* was created is on the free list, and the final assertion of eval has not
\* failed.
C1_ZeroLeak ==
    /\ NoHandles => TableClean(vt)
    /\ result # <<"Panic", "leak">>

\* an evaluation that created two virtual wires, resolved one of them through
\* the other, and returned Ok
C1_Witness ==
    /\ pc = "done" /\ result = Ok
    /\ Len(vt.wires) >= 2 /\ cascade >= 2

\* C2 as stated: the refcount of an unresolved virtual wire is 1 for the
\* handle returned by add, plus some number k >= 0 of outstanding clones, plus
\* its stored term references.
C2_Original ==
    \A i \in Slots :
        vt.wires[i].refcount > 0 =>
            \E k \in 0 .. MaxCalls :
                vt.wires[i].refcount = 1 + k + StoredRefs(i)

\* C2 (amended): the refcount of an unresolved virtual wire is the number of
\* its live handles (the one returned by add while it is not dropped, plus the
\* outstanding clones) plus the times its index is stored in term lists.
C2_RefcountExact ==
    \A i \in Slots :
        vt.wires[i].refcount > 0 =>
            vt.wires[i].refcount = LiveHandles(i) + StoredRefs(i)

\* a wire with a clone outstanding, its first handle dropped, and a stored
\* reference to it
C2_Witness ==
    \E i \in Slots : ~orig[i] /\ clones[i] > 0 /\ StoredRefs(i) > 0

\* C3: the assertion refcount > 0 of VirtualTable::free never fails, and no
\* slot is on the free list twice.
C3_NoUnderflow ==
    /\ vt.ok
    /\ result # <<"Panic", "refcount">>
    /\ \A j, k \in 1 .. Len(vt.free) : j # k => vt.free[j] # vt.free[k]

\* a drop resolved two wires in one cascade and a later add took one of the
\* two slots from the free list
C3_Witness ==
    /\ cascade >= 2
    /\ Len(vt.wires) = 2 /\ Len(vt.free) = 1
    /\ \E i \in Slots : Alive(i)

\* C4: when eval returns Ok at y # 0, every coefficient it wrote equals the
\* sum over the enforced constraints j of y^(q-1-j) times the net coefficient
\* of that wire in constraint j with every virtual wire expanded.
C4_DeferredEqualsDirect ==
    (pc = "done" /\ result = Ok /\ y # 0) =>
        /\ vt.a = direct.a
        /\ vt.b = direct.b
        /\ vt.c = direct.c

\* an Ok evaluation in which a constraint named a virtual wire and one drop
\* resolved two wires in a cascade
C4_Witness ==
    /\ pc = "done" /\ result = Ok /\ y # 0
    /\ deferred /\ cascade >= 2

\* C5: the k-th successful enforce_zero (k = 0 .. q-1) weights its terms by
\* y^(q-1-k).
C5_PowerOrdering ==
    \A k \in 1 .. Len(weights) :
        k <= num_linear_constraints =>
            weights[k] = FPow(y, num_linear_constraints - k)

\* all q = 3 constraints enforced: weights y^2, y^1, y^0
C5_Witness ==
    /\ pc = "done" /\ result = Ok
    /\ num_linear_constraints = 3 /\ Len(weights) = 3

\* C6: at y = 0 eval returns Ok with c = <<1>> and nothing else: no
\* evaluator, no virtual wire, no gate, no constraint, no circuit call.
C6_ZeroFixedPoint ==
    (y = 0 /\ pc # "start") =>
        /\ pc = "done" /\ result = Ok
        /\ vt.c = <<1>> /\ vt.a = <<>> /\ vt.b = <<>>
        /\ vt.wires = <<>> /\ vt.free = <<>>
        /\ ev = NoEvaluator
        /\ weights = <<>> /\ budget = MaxCalls /\ issued = 0 /\ held = {}

\* eval has returned at y = 0, for a count above the Rank's bound
C6_Witness ==
    /\ y = 0 /\ pc = "done"
    /\ num_linear_constraints > R_num_coeffs /\ key # 0

MulErr == <<"Err", "MultiplicationBoundExceeded", R_n>>
LinErr == <<"Err", "LinearBoundExceeded", R_num_coeffs>>

\* a call of the circuit that asks the evaluator for a new gate
GateCall == CMul \/ (CAlloc /\ ev.available_b = None)

\* C7 as stated: when a gate request of the circuit fails with
\* MultiplicationBoundExceeded(n), it is the (n+1)-th gate the circuit has
\* issued.
C7_Original ==
    last = MulErr => issued = R_n + 1

\* C7 (amended): eval opens the key gate before the circuit runs, so the gate
\* counter is one more than the gates the circuit was granted; the request made
\* when the counter is n (the circuit's n-th, the evaluator's (n+1)-th) fails
\* with MultiplicationBoundExceeded(n) and every earlier one succeeds; the
\* failing call leaves the evaluator, the table with its A/B/C arrays and every
\* wire handed out before unchanged.
C7_GateBound ==
    /\ [](Started =>
            /\ ev.multiplication_constraints <= R_n
            /\ ev.multiplication_constraints
                 = 1 + issued - (IF last = MulErr THEN 1 ELSE 0)
            /\ last = MulErr => issued = R_n)
    /\ [][GateCall =>
            IF ev.multiplication_constraints < R_n
            THEN /\ last' = Ok
                 /\ ev'.multiplication_constraints
                      = ev.multiplication_constraints + 1
            ELSE /\ last' = MulErr
                 /\ ev' = ev /\ vt' = vt /\ direct' = direct
                 /\ held' = held /\ orig' = orig /\ clones' = clones]_vars

\* a gate request failed while the circuit held the wires of an earlier gate
\* and a live virtual wire
C7_Witness ==
    /\ last = MulErr
    /\ <<"C", 1>> \in held
    /\ \E i \in Slots : Alive(i)

\* a call of enforce_zero: by the circuit, or by eval for an output or for ONE
EnforceCall ==
    \/ pc = "circuit" /\ op' = "enforce_zero" /\ budget' < budget
    \/ \E w \in Usable : Output(w)
    \/ FinalOne

\* what the call of this step returned
Returned == IF pc = "circuit" THEN last' ELSE IF pc' = "unwind" THEN result' ELSE Ok

\* C8: enforce_zero succeeds while fewer than num_coeffs constraints have been
\* enforced; the call made when the count equals num_coeffs returns
\* LinearBoundExceeded(num_coeffs) and changes no coefficient, no virtual-wire
\* value, and neither the constraint counter nor current_y: the combinator is
\* not run.
C8_LinearBound ==
    [][EnforceCall =>
         IF ev.linear_constraints < R_num_coeffs
         THEN /\ Returned = Ok
              /\ ev'.linear_constraints = ev.linear_constraints + 1
              /\ Len(weights') = Len(weights) + 1
         ELSE /\ Returned = LinErr
              /\ ev' = ev /\ vt' = vt
              /\ weights' = weights /\ direct' = direct]_vars

\* the circuit's call was refused at the limit, after an earlier constraint
\* had left a value pending in a virtual wire
C8_Witness ==
    /\ last = LinErr
    /\ ev.linear_constraints = R_num_coeffs
    /\ \E i \in Slots : vt.wires[i].refcount > 0 /\ vt.wires[i].value # 0

(***************************************************************************)
(* Properties of the StageBuilder                                          *)
(***************************************************************************)
\* the declared chain from () to stage s
RECURSIVE Chain(_)
Chain(s) == IF s = Unit THEN <<>> ELSE Append(Chain(Parent[s]), s)

\* C10: a stage is reserved only when its declared Parent is the builder's
\* current stage; finish happens only when the stages reserved so far are the
\* whole declared chain from () to the target, in order; after finish (or
\* after the builder is gone) nothing is reserved.
C10_StageSequencing ==
    /\ [](sb.phase \in {"building", "finished"} =>
            sb.reserved = Chain(sb.current))
    /\ [](sb.phase = "finished" => sb.reserved = Chain(sb.target))
    /\ [][sb'.reserved # sb.reserved =>
            /\ sb.phase = "building"
            /\ \E s \in StageIds :
                 /\ Parent[s] = sb.current
                 /\ sb'.reserved = Append(sb.reserved, s)
                 /\ sb'.current = s]_vars
    /\ [][sb.phase = "finished" =>
            /\ sb'.phase = "finished"
            /\ sb'.reserved = sb.reserved
            /\ sb'.current = sb.current]_vars

\* a builder finished after reserving a chain of three stages, one of them
\* skipped
C10_Witness ==
    /\ sb.phase = "finished"
    /\ sb.reserved = <<1, 2, 3>>
    /\ Len(sb.guards) = 2

(***************************************************************************)
(* The two-gate scenario                                                   *)
(***************************************************************************)
\* sum of the weights of the circuit's three constraints: y^3 + y^2 + y
ScenarioSum == FAdd(FPow(y, 3), FAdd(FPow(y, 2), y))

Ended == pc \in {"done", "panic"}

\* every coefficient outside the output slots of the two gates is zero
OnlyGateOutputs ==
    /\ \A i \in 1 .. Len(vt.a) : vt.a[i] = 0
    /\ \A i \in 1 .. Len(vt.b) : vt.b[i] = 0
    /\ \A i \in 1 .. Len(vt.c) : i \notin {2, 3} => vt.c[i] = 0

\* C9 as stated: with n = 2 and num_coeffs = 3 the evaluation of the scenario
\* completes with no outstanding virtual wire and a backward view populated at
\* exactly the output slots of the two gates, with the sums of coeff * y^power.
C9_Original ==
    (R_n = 2 /\ R_num_coeffs = 3 /\ Ended) =>
        /\ pc = "done" /\ result = Ok
        /\ TableClean(vt)
        /\ Len(vt.c) = 3
        /\ vt.c[2] = ScenarioSum /\ vt.c[3] = FNeg(ScenarioSum)
        /\ OnlyGateOutputs

\* C9 (amended): eval spends gate 0 and constraint 0 on the key and the last
\* constraint on ONE.  With n = 2 the circuit's second gate is refused with
\* MultiplicationBoundExceeded(2); with n = 3 and num_coeffs = 3 the
\* circuit's third constraint is refused with LinearBoundExceeded(3).  With
\* n = 3, num_coeffs = 5 and num_linear_constraints = 5 the evaluation returns
\* Ok with every virtual-wire slot free, c[1] = y^3 + y^2 + y and
\* c[2] = -(y^3 + y^2 + y) at the outputs of the circuit's gates, and besides
\* them a[0] = y^4 and c[0] = 1 - key * y^4; every other coefficient is zero.
C9_Scenario ==
    /\ (R_n = 2 /\ Ended) => pc = "done" /\ result = MulErr
    /\ (R_n = 3 /\ R_num_coeffs = 3 /\ Ended) => pc = "done" /\ result = LinErr
    /\ (R_n = 3 /\ R_num_coeffs = 5 /\ num_linear_constraints = 5 /\ Ended) =>
        /\ pc = "done" /\ result = Ok
        /\ TableClean(vt)
        /\ \A i \in Slots : vt.wires[i].refcount = 0
        /\ vt.a = <<FPow(y, 4), 0, 0>>
        /\ vt.b = <<0, 0, 0>>
        /\ vt.c = <<FAdd(1, FNeg(FMul(key, FPow(y, 4)))),
                    ScenarioSum, FNeg(ScenarioSum)>>

\* the scenario evaluated to the end with room for the key and ONE, at a y
\* where the sum of the weights is not zero and with a nonzero key
C9_Witness ==
    /\ pc = "done" /\ result = Ok
    /\ R_n = 3 /\ R_num_coeffs = 5
    /\ Len(weights) = 5
    /\ key # 0 /\ ScenarioSum # 0
    /\ vt.c[2] = ScenarioSum

(***************************************************************************)
(* Properties of the reservation and of the guards                         *)
(***************************************************************************)

RECURSIVE SumSeq(_)
SumSeq(q) == IF q = <<>> THEN 0 ELSE q[1] + SumSeq(Tail(q))

\* the driver calls a step added to the log
NewCalls == SubSeq(sb'.log, Len(sb.log) + 1, Len(sb'.log))

IsAlloc(e) == e[1] = "alloc"
IsPlaceholder(e) == e[1] = "alloc" /\ e[3] = Zero
IsEnforceEqual(e) == e[1] = "enforce_equal"

\* what a reservation of `counted` wires that returns Ok does to the driver
ReservedExactly(counted) ==
    /\ sb'.allocs = sb.allocs + counted
    /\ Len(NewCalls) = counted
    /\ \A k \in 1 .. counted : NewCalls[k] = <<"alloc", sb.allocs + k, Zero>>

\* C11: a configure_stage, add_stage or skip_stage call that returns Ok makes
\* exactly as many alloc calls on the driver as the stage instance counts
\* wires, each with the zero placeholder and no other driver call; skip_stage
\* allocates what add_stage allocates; and the placeholder allocations of a
\* builder that has not failed number the sum of the counts of its stages.
C11_WireConservation ==
    /\ [][\A next \in StageIds :
            /\ \A counted \in Counts(next) :
                 (ConfigureStage(next, counted, 0) /\ sb'.phase = "building")
                     => ReservedExactly(counted)
            /\ (AddStage(next, 0) /\ sb'.phase = "building")
                     => ReservedExactly(DefaultWires[next])
            /\ (SkipStage(next, 0) /\ sb'.phase = "building")
                     => /\ ReservedExactly(DefaultWires[next])
                        /\ sb'.skipped[Len(sb'.skipped)].stage_wires
                             = AllocatedWires(sb.allocs + 1,
                                   sb.allocs + DefaultWires[next])]_vars
    /\ [](sb.phase \in {"building", "finished", "dropped"} =>
            /\ Len(sb.counts) = Len(sb.reserved)
            /\ Len(SelectSeq(sb.log, IsPlaceholder)) = SumSeq(sb.counts))

\* three stages reserved, one of them skipped, three wires in all
C11_Witness ==
    /\ sb.phase = "finished"
    /\ sb.reserved = <<1, 2, 3>>
    /\ Len(sb.skipped) = 1
    /\ SumSeq(sb.counts) = 3
    /\ Len(SelectSeq(sb.log, IsPlaceholder)) = 3

BoundExceeded(next) ==
    <<"Err", "MultiplicationBoundExceeded", <<"num_multiplications", next>>>>

\* C12: when the counted wires of the stage instance exceed values() of the
\* stage, configure_stage (and add_stage, which calls it) returns the
\* MultiplicationBoundExceeded error of the stage, and the call has made no
\* alloc call: the driver's wires and the calls it received are unchanged.
C12_BoundCheck ==
    [][\A next \in StageIds :
         /\ \A counted \in Counts(next) : \A fail_at \in FailAts(counted) :
              (ConfigureStage(next, counted, fail_at) /\ counted > Values[next])
                  => /\ sb'.phase = "failed"
                     /\ sb'.result = BoundExceeded(next)
                     /\ sb'.allocs = sb.allocs
                     /\ sb'.log = sb.log
                     /\ sb'.guards = sb.guards
         /\ \A fail_at \in FailAts(DefaultWires[next]) :
              (AddStage(next, fail_at) /\ DefaultWires[next] > Values[next])
                  => /\ sb'.result = BoundExceeded(next)
                     /\ sb'.allocs = sb.allocs
                     /\ sb'.log = sb.log]_vars

\* the second stage was refused for its count after the first was reserved
C12_Witness ==
    /\ sb.phase = "failed"
    /\ sb.result = BoundExceeded(2)
    /\ sb.reserved = <<1>>
    /\ sb.allocs = 2
    /\ Len(sb.log) = 2

\* C13: unenforced makes no call on the driver it is handed (no alloc, mul,
\* add, enforce_zero or enforce_equal: the wires and the calls the driver
\* received are unchanged), and when it returns Ok the i-th wire of the
\* returned gadget is the i-th wire reserved for the stage.
C13_UnenforcedSilent ==
    [][\A g \in 1 .. Len(sb.guards) : \A live \in Lives(g) :
         Unenforced(g, live) =>
             /\ sb'.log = sb.log
             /\ sb'.allocs = sb.allocs
             /\ sb'.final = sb.final
             /\ sb'.guards[g].status = "unenforced"
             /\ sb'.guards[g].outcome = Ok =>
                  /\ Len(sb'.guards[g].gadget) = live
                  /\ \A i \in 1 .. live :
                       sb'.guards[g].gadget[i] = sb.guards[g].stage_wires[i]]_vars

\* unenforced returned a gadget of two wires for a stage of two reserved wires
C13_Witness ==
    \E g \in 1 .. Len(sb.guards) :
        /\ sb.guards[g].status = "unenforced"
        /\ sb.guards[g].outcome = Ok
        /\ Len(sb.guards[g].stage_wires) = 2
        /\ Len(sb.guards[g].gadget) = 2

\* the enforce_equal calls among the calls of a step, in order
NewEqualities == SelectSeq(NewCalls, IsEnforceEqual)

\* C14: an enforced call that returns Ok has run the stage's witness logic on
\* the driver (its allocations and its constraints are the first calls of the
\* step), and after them has made exactly one enforce_equal call per live
\* wire, the i-th pairing the i-th live wire with the i-th wire reserved for
\* the stage, and nothing else; the wires of the returned gadget are the
\* reserved wires, none of them a live wire.
C14_EnforcedEqualities ==
    [][\A g \in 1 .. Len(sb.guards) : \A live \in Lives(g) :
       \A wit_fail \in WitFails(live) : \A eq_fail \in EqFails(g, live, wit_fail) :
         (Enforced(g, live, wit_fail, eq_fail) /\ sb'.guards[g].outcome = Ok) =>
            LET stage == sb.guards[g].stage
                logic == live + StageConstraints[stage]
            IN  /\ Len(NewCalls) = logic + live
                /\ \A k \in 1 .. live :
                     NewCalls[k] = <<"alloc", sb.allocs + k,
                                     WitnessValue(sb.witness, k)>>
                /\ \A k \in (live + 1) .. logic :
                     NewCalls[k][1] = "enforce_zero"
                /\ Len(NewEqualities) = live
                /\ \A i \in 1 .. live :
                     /\ NewCalls[logic + i] = NewEqualities[i]
                     /\ NewEqualities[i] = <<"enforce_equal", sb.allocs + i,
                                             sb.guards[g].stage_wires[i]>>
                /\ sb'.guards[g].status = "enforced"
                /\ Len(sb'.guards[g].gadget) = live
                /\ \A i \in 1 .. live :
                     /\ sb'.guards[g].gadget[i] = sb.guards[g].stage_wires[i]
                     /\ sb'.guards[g].gadget[i] <= sb.allocs]_vars

\* enforced returned Ok for a stage of two reserved wires and two live wires
C14_Witness ==
    \E g \in 1 .. Len(sb.guards) :
        /\ sb.guards[g].status = "enforced"
        /\ sb.guards[g].outcome = Ok
        /\ Len(sb.guards[g].stage_wires) = 2
        /\ Len(sb.guards[g].gadget) = 2
        /\ Len(SelectSeq(sb.log, IsEnforceEqual)) >= 2

DriverError == <<"Err", "Driver">>

\* C15 as stated: whenever the gadget of the stage's witness logic has more
\* wires than were reserved for the stage, enforced and unenforced return
\* InvalidWitness.
C15_Original ==
    [][\A g \in 1 .. Len(sb.guards) : \A live \in Lives(g) :
         /\ (Unenforced(g, live) /\ live > Len(sb.guards[g].stage_wires))
                => sb'.guards[g].outcome = InvalidWitness
         /\ \A eq_fail \in EqFails(g, live, 0) :
              (Enforced(g, live, 0, eq_fail)
                 /\ live > Len(sb.guards[g].stage_wires))
                => sb'.guards[g].outcome = InvalidWitness]_vars

\* C15 (amended): when the gadget of the stage's witness logic has more wires
\* than were reserved for the stage, unenforced returns InvalidWitness, and
\* enforced returns an error and no gadget: InvalidWitness, reached after one
\* enforce_equal per reserved wire, unless the driver refuses one of those
\* enforce_equal calls, whose error is then the one returned.
C15_InsufficientWires ==
    [][\A g \in 1 .. Len(sb.guards) : \A live \in Lives(g) :
         LET reserved == Len(sb.guards[g].stage_wires) IN
         /\ (Unenforced(g, live) /\ live > reserved)
                => /\ sb'.guards[g].outcome = InvalidWitness
                   /\ sb'.guards[g].gadget = <<>>
         /\ \A eq_fail \in EqFails(g, live, 0) :
              (Enforced(g, live, 0, eq_fail) /\ live > reserved)
                => /\ sb'.guards[g].gadget = <<>>
                   /\ sb'.guards[g].outcome =
                        (IF eq_fail = 0 THEN InvalidWitness ELSE DriverError)
                   /\ Len(NewEqualities) =
                        (IF eq_fail = 0 THEN reserved ELSE eq_fail - 1)]_vars

\* both calls answered InvalidWitness, enforced after its equality constraints
C15_Witness ==
    \E g, h \in 1 .. Len(sb.guards) :
        /\ sb.guards[g].status = "enforced"
        /\ sb.guards[g].outcome = InvalidWitness
        /\ Len(sb.guards[g].stage_wires) = 2
        /\ Len(SelectSeq(sb.log, IsEnforceEqual)) >= 2
        /\ sb.guards[h].status = "unenforced"
        /\ sb.guards[h].outcome = InvalidWitness

\* C16: when the gadget the stage's witness logic produces on the driver has
\* a number of wires different from the number reserved for the stage, more
\* or fewer, enforced returns an error.
C16_MismatchIsError ==
    [][\A g \in 1 .. Len(sb.guards) : \A live \in Lives(g) :
       \A eq_fail \in EqFails(g, live, 0) :
         (Enforced(g, live, 0, eq_fail)
            /\ live >= 0 /\ live # Len(sb.guards[g].stage_wires))
                => IsErr(sb'.guards[g].outcome)]_vars

\* C17 as stated: every guard a reservation returned is consumed by enforced
\* or unenforced; none is left unconsumed, neither dropped by the caller nor
\* discarded by skip_stage.
C17_Original ==
    /\ \A g \in 1 .. Len(sb.guards) : sb.guards[g].status # "dropped"
    /\ sb.skipped = <<>>

\* C17 (amended): a guard is consumed at most once: enforced, unenforced or a
\* drop acts only on a guard that is still held, and a guard that was
\* consumed or dropped never changes again.  A guard may be left unconsumed.
C17_ConsumedAtMostOnce ==
    [][\A g \in 1 .. Len(sb.guards) :
         /\ g <= Len(sb'.guards)
         /\ sb'.guards[g].stage = sb.guards[g].stage
         /\ sb'.guards[g].stage_wires = sb.guards[g].stage_wires
         /\ sb.guards[g].status # "held" => sb'.guards[g] = sb.guards[g]
         /\ sb'.guards[g].status # sb.guards[g].status
              => /\ sb.guards[g].status = "held"
                 /\ sb'.guards[g].status \in {"enforced", "unenforced", "dropped"}]_vars

\* three guards: one went to enforced, one to unenforced, one was dropped
C17_Witness ==
    /\ Len(sb.guards) = 3
    /\ \E g, h, d \in 1 .. 3 :
        /\ sb.guards[g].status = "enforced"
        /\ sb.guards[h].status = "unenforced"
        /\ sb.guards[d].status = "dropped"

\* every reservation made so far: the guards handed out and those skip_stage
\* discarded
Reservations == sb.guards \o sb.skipped

WiresOf(guard) == {guard.stage_wires[i] : i \in 1 .. Len(guard.stage_wires)}

\* the place of a stage in the order of reservation
StageIndex(stage) == CHOOSE k \in 1 .. Len(sb.reserved) : sb.reserved[k] = stage

\* C18: the driver handing out a fresh wire per alloc, the wires reserved for
\* different stages are pairwise disjoint; the wires of each stage are
\* consecutive and start right after the last wire of the stages reserved
\* before it; and every wire the final stage allocates after finish comes
\* after every reserved wire.
C18_NonOverlapping ==
    /\ \A i, j \in 1 .. Len(Reservations) :
         i # j => WiresOf(Reservations[i]) \cap WiresOf(Reservations[j]) = {}
    /\ \A i \in 1 .. Len(Reservations) :
         LET r == Reservations[i]
             k == StageIndex(r.stage)
             before == SumSeq(SubSeq(sb.counts, 1, k - 1))
         IN  /\ \E n \in 1 .. Len(sb.reserved) : sb.reserved[n] = r.stage
             /\ Len(r.stage_wires) = sb.counts[k]
             /\ \A n \in 1 .. Len(r.stage_wires) : r.stage_wires[n] = before + n
    /\ \A f \in 1 .. Len(sb.final) :
         /\ sb.final[f] > SumSeq(sb.counts)
         /\ \A i \in 1 .. Len(Reservations) :
              \A w \in WiresOf(Reservations[i]) : sb.final[f] > w

\* two stages with wires and a third reserved, then a wire of the final stage
C18_Witness ==
    /\ sb.phase = "finished"
    /\ sb.reserved = <<1, 2, 3>>
    /\ Len(Reservations) = 3
    /\ \E i, j \in 1 .. 3 :
         /\ Reservations[i].stage_wires = <<1, 2>>
         /\ Reservations[j].stage_wires = <<3>>
    /\ sb.final = <<4>>

\* the alloc calls of a reservation phase for stage instances of the given
\* wire counts: a function of the counts alone
LayoutOf(counts) == [k \in 1 .. SumSeq(counts) |-> <<"alloc", k, Zero>>]

\* C19: the alloc calls the reservation phase makes on the driver, their
\* number and their order, are determined by the sequence of stage instances
\* alone: whatever witness the run is given, they are the calls LayoutOf
\* gives for the wire counts of the instances, the driver holds no other call
\* while the builder is building, and no later call is a placeholder
\* allocation.  Two runs of the same stages with different witnesses
\* therefore reserve the same positions.
C19_DeterministicLayout ==
    \A w \in Witnesses :
        (sb.witness = w /\ sb.phase \in {"building", "finished", "dropped"}) =>
            LET n == SumSeq(sb.counts) IN
            /\ Len(sb.log) >= n
            /\ SubSeq(sb.log, 1, n) = LayoutOf(sb.counts)
            /\ sb.phase = "building" => Len(sb.log) = n /\ sb.allocs = n
            /\ \A k \in (n + 1) .. Len(sb.log) : ~IsPlaceholder(sb.log[k])

\* the run with the second witness reserved the three wires of the run with
\* the first, and went on to use the witness on the driver
C19_Witness ==
    /\ sb.witness = 2
    /\ sb.phase = "finished"
    /\ sb.counts = <<2, 1, 0>>
    /\ Len(sb.log) > 3
    /\ SubSeq(sb.log, 1, 3) = LayoutOf(<<2, 1, 0>>)
    /\ \E k \in 4 .. Len(sb.log) : sb.log[k] = <<"alloc", 4, WitnessValue(2, 1)>>

\* the value the driver was given for a wire when the wire was allocated
Assigned(log, wire) ==
    LET k == CHOOSE k \in 1 .. Len(log) : log[k][1] = "alloc" /\ log[k][2] = wire
    IN  log[k][3]

MaxEmuCalls == 3

\* the evaluator and the builder at rest
SyIdle ==
    /\ y = 0 /\ key = 0 /\ num_linear_constraints = 1
    /\ R_n = Rank_n
    /\ R_num_coeffs = Rank_num_coeffs
    /\ budget = 0
    /\ SyStart
    /\ sb = NoBuilder

\* M::Rebind<F> of the Empty kind: no value
EmptyValue == -1

\* the values the closures of a run produce
EmuCoeffs == {0, 2, 3}

\* M::maybe_just(|| v)
MaybeJust(maybe, v) == IF maybe = "Always" THEN v ELSE EmptyValue

\* wires: () of the wireless mode, MaybeWired::One and MaybeWired::Arbitrary
UnitWire == <<"Unit", 0>>
OneWire == <<"One", 1>>
Arbitrary(v) == <<"Arbitrary", v>>

\* MaybeWired::snag: the value of a wire, F::ONE for the ONE wire
Snag(wire) == IF wire[1] = "One" THEN 1 ELSE wire[2]

OkWires(wires) == [ok |-> TRUE, wires |-> wires, err |-> "", value |-> 0]
OkValue(v) == [ok |-> TRUE, wires |-> <<>>, err |-> "", value |-> v]
Failed(err) == [ok |-> FALSE, wires |-> <<>>, err |-> err, value |-> 0]

\* what a value closure returns when it is invoked
AllocClosures ==
    {[ok |-> TRUE, coeff |-> c] : c \in EmuCoeffs} \cup {[ok |-> FALSE, coeff |-> 0]}
MulClosures ==
    {[ok |-> TRUE, a |-> a, b |-> b, c |-> c] : a, b, c \in EmuCoeffs}
        \cup {[ok |-> FALSE, a |-> 0, b |-> 0, c |-> 0]}

\* the wires a run can hold on an emulator of the given kind
EmuWires(driver, maybe) ==
    IF driver = "wireless" THEN {UnitWire}
    ELSE {OneWire} \cup {Arbitrary(MaybeJust(maybe, v)) : v \in EmuCoeffs}

\* linear combinations: up to two terms <<wire, coefficient>>
EmuLCs(driver, maybe) ==
    LET terms == EmuWires(driver, maybe) \X {1, 2}
    IN  {<<>>} \cup {<<t>> : t \in terms} \cup {<<t, u>> : t, u \in terms}

\* DirectSum: the sum of coefficient * value over the terms
RECURSIVE DirectSumValue(_)
DirectSumValue(lc) ==
    IF lc = <<>> THEN 0
    ELSE FAdd(FMul(Snag(lc[1][1]), lc[1][2]), DirectSumValue(Tail(lc)))

\* one more driver call, with its result
EmCalled(e, name, out) ==
    [e EXCEPT !.calls = @ + 1, !.op = name, !.out = out,
              !.predicts = 0, !.executes = 0, !.exec_aux = 0,
              !.predict_on = "none"]

\* Emulator::wired, Emulator::wireless, or an Evaluator for its routine method
EmNew(driver, maybe) ==
    /\ em.driver = "none"
    /\ em' = [NoEmulator EXCEPT !.driver = driver, !.maybe = maybe]
    /\ UNCHANGED <<syVars, sb, st, pp, mc, lx>>

\* a wireless alloc that runs the closure it is given
Em_alloc_eager(e, f) ==
    IF ~f.ok THEN [EmCalled(e, "alloc", Failed("Closure")) EXCEPT !.closures = @ + 1]
    ELSE IF e.driver = "wireless"
    THEN [EmCalled(e, "alloc", OkWires(<<UnitWire>>)) EXCEPT !.closures = @ + 1]
    ELSE [EmCalled(e, "alloc", OkWires(<<Arbitrary(MaybeJust(e.maybe, f.coeff))>>))
             EXCEPT !.closures = @ + 1]

\* Driver::alloc of the two modes
Em_alloc(e, f) ==
    IF e.driver = "wireless" THEN EmCalled(e, "alloc", OkWires(<<UnitWire>>))
    ELSE IF ~f.ok
    THEN [EmCalled(e, "alloc", Failed("Closure")) EXCEPT !.closures = @ + 1]
    ELSE [EmCalled(e, "alloc", OkWires(<<Arbitrary(MaybeJust(e.maybe, f.coeff))>>))
             EXCEPT !.closures = @ + 1]

\* Driver::constant of the two modes
Em_constant(e, coeff) ==
    IF e.driver = "wireless" THEN EmCalled(e, "constant", OkWires(<<UnitWire>>))
    ELSE EmCalled(e, "constant", OkWires(<<Arbitrary(MaybeJust(e.maybe, coeff))>>))

\* a wired mul that checks the gate
Em_mul_checked(e, f) ==
    IF e.driver = "wireless"
    THEN EmCalled(e, "mul", OkWires(<<UnitWire, UnitWire, UnitWire>>))
    ELSE IF ~f.ok
    THEN [EmCalled(e, "mul", Failed("Closure")) EXCEPT !.closures = @ + 1]
    ELSE IF FMul(f.a, f.b) # f.c
    THEN [EmCalled(e, "mul", Failed("Constraint")) EXCEPT !.closures = @ + 1]
    ELSE [EmCalled(e, "mul", OkWires(<<Arbitrary(MaybeJust(e.maybe, f.a)),
                                       Arbitrary(MaybeJust(e.maybe, f.b)),
                                       Arbitrary(MaybeJust(e.maybe, f.c))>>))
             EXCEPT !.closures = @ + 1]

\* Driver::mul of the two modes
Em_mul(e, f) ==
    IF e.driver = "wireless"
    THEN EmCalled(e, "mul", OkWires(<<UnitWire, UnitWire, UnitWire>>))
    ELSE IF ~f.ok
    THEN [EmCalled(e, "mul", Failed("Closure")) EXCEPT !.closures = @ + 1]
    ELSE [EmCalled(e, "mul", OkWires(<<Arbitrary(MaybeJust(e.maybe, f.a)),
                                       Arbitrary(MaybeJust(e.maybe, f.b)),
                                       Arbitrary(MaybeJust(e.maybe, f.c))>>))
             EXCEPT !.closures = @ + 1]

\* Driver::add of the two modes: the wired mode runs the combinator on a
\* MaybeDirectSum, whose sum exists only with a witness
Em_add(e, lc) ==
    IF e.driver = "wireless" THEN EmCalled(e, "add", OkWires(<<UnitWire>>))
    ELSE [EmCalled(e, "add",
             OkWires(<<Arbitrary(IF e.maybe = "Always" THEN DirectSumValue(lc)
                                 ELSE EmptyValue)>>))
             EXCEPT !.combinators = @ + 1]

\* Driver::enforce_zero of the two modes
Em_enforce_zero(e, lc) == EmCalled(e, "enforce_zero", OkWires(<<>>))

EmRunning == em.driver \in {"wired", "wireless"} /\ em.calls < MaxEmuCalls

EmAlloc(f) ==
    /\ EmRunning
    /\ em' = Em_alloc(em, f)
    /\ UNCHANGED <<syVars, sb, st, pp, mc, lx>>

EmConstant(coeff) ==
    /\ EmRunning
    /\ em' = Em_constant(em, coeff)
    /\ UNCHANGED <<syVars, sb, st, pp, mc, lx>>

EmMul(f) ==
    /\ EmRunning
    /\ em' = Em_mul(em, f)
    /\ UNCHANGED <<syVars, sb, st, pp, mc, lx>>

EmAdd(lc) ==
    /\ EmRunning
    /\ em' = Em_add(em, lc)
    /\ UNCHANGED <<syVars, sb, st, pp, mc, lx>>

EmEnforceZero(lc) ==
    /\ EmRunning
    /\ em' = Em_enforce_zero(em, lc)
    /\ UNCHANGED <<syVars, sb, st, pp, mc, lx>>

\* what Routine::predict and Routine::execute of a routine return on an input
Predictions ==
    {[kind |-> "Known", output |-> o, aux |-> a] : o \in 1 .. 2, a \in 1 .. 2}
        \cup {[kind |-> "Unknown", output |-> 0, aux |-> a] : a \in 1 .. 2}
        \cup {[kind |-> "Err", output |-> 0, aux |-> 0]}
Executions ==
    {[ok |-> TRUE, output |-> o] : o \in 1 .. 2} \cup {[ok |-> FALSE, output |-> 0]}

\* the driver predict runs on: the emulators pass themselves, the Evaluator
\* passes `dummy`, a fresh Emulator::wireless()
PredictOn(e) == IF e.driver = "evaluator" THEN "wireless" ELSE e.driver

\* routine.execute(self, input, aux)
Executed(e, pred, exec) ==
    [EmCalled(e, "routine",
              IF exec.ok THEN OkValue(exec.output) ELSE Failed("Execute"))
        EXCEPT !.predicts = 1, !.executes = 1, !.exec_aux = pred.aux,
               !.predict_on = PredictOn(e)]

\* a routine method that executes whatever the prediction
Em_routine_always_execute(e, pred, exec) ==
    IF pred.kind = "Err"
    THEN [EmCalled(e, "routine", Failed("Predict")) EXCEPT !.predicts = 1,
                                                  !.predict_on = PredictOn(e)]
    ELSE Executed(e, pred, exec)

\* a routine method that trusts its own guess over the prediction
Em_routine_other_output(e, pred, exec) ==
    IF pred.kind = "Err"
    THEN [EmCalled(e, "routine", Failed("Predict")) EXCEPT !.predicts = 1,
                                                  !.predict_on = PredictOn(e)]
    ELSE IF e.driver # "evaluator" /\ pred.kind = "Known"
    THEN [EmCalled(e, "routine", OkValue(3 - pred.output)) EXCEPT !.predicts = 1,
                                                  !.predict_on = PredictOn(e)]
    ELSE Executed(e, pred, exec)

\* a routine method that returns a known prediction on every driver
Em_routine_short_circuit(e, pred, exec) ==
    IF pred.kind = "Err"
    THEN [EmCalled(e, "routine", Failed("Predict")) EXCEPT !.predicts = 1,
                                                  !.predict_on = PredictOn(e)]
    ELSE IF pred.kind = "Known"
    THEN [EmCalled(e, "routine", OkValue(pred.output)) EXCEPT !.predicts = 1,
                                                  !.predict_on = PredictOn(e)]
    ELSE Executed(e, pred, exec)

\* Driver::routine: the emulators return a known prediction, the Evaluator
\* uses the prediction for its aux only
Em_routine(e, pred, exec) ==
    IF pred.kind = "Err"
    THEN [EmCalled(e, "routine", Failed("Predict")) EXCEPT !.predicts = 1,
                                                  !.predict_on = PredictOn(e)]
    ELSE IF e.driver # "evaluator" /\ pred.kind = "Known"
    THEN [EmCalled(e, "routine", OkValue(pred.output)) EXCEPT !.predicts = 1,
                                                  !.predict_on = PredictOn(e)]
    ELSE Executed(e, pred, exec)

EmRoutine(pred, exec) ==
    /\ em.driver # "none"
    /\ em.calls < MaxEmuCalls
    /\ em' = Em_routine(em, pred, exec)
    /\ UNCHANGED <<syVars, sb, st, pp, mc, lx>>

EmuInit == SyIdle /\ OtherIdle

EmuNext ==
    \/ \E driver \in {"wired", "wireless", "evaluator"} :
           \E maybe \in {"Always", "Empty"} : EmNew(driver, maybe)
    \/ \E f \in AllocClosures : EmAlloc(f)
    \/ \E coeff \in EmuCoeffs : EmConstant(coeff)
    \/ \E f \in MulClosures : EmMul(f)
    \/ \E lc \in EmuLCs(em.driver, em.maybe) : EmAdd(lc)
    \/ \E lc \in EmuLCs(em.driver, em.maybe) : EmEnforceZero(lc)
    \/ \E pred \in Predictions : \E exec \in Executions : EmRoutine(pred, exec)

SpecEmu == EmuInit /\ [][EmuNext]_vars

(***************************************************************************)
(* Properties of the emulators                                             *)
(***************************************************************************)

\* C21: the emulators enforce nothing.  enforce_zero returns Ok for every
\* linear combination in both modes; a wired mul whose closure returns
\* (a, b, c) returns wires holding exactly a, b and c, also when a * b # c;
\* and the only errors a wired emulator returns are the error of a value
\* closure, from alloc or mul, and the error of a routine's predict or
\* execute, from routine.
C21_NoEnforcement ==
    /\ [][\A lc \in EmuLCs(em.driver, em.maybe) :
            EmEnforceZero(lc) => em'.out.ok /\ em'.out.err = ""]_vars
    /\ [][\A f \in MulClosures :
            (EmMul(f) /\ em.driver = "wired" /\ f.ok) =>
                /\ em'.out.ok
                /\ Len(em'.out.wires) = 3
                /\ em.maybe = "Always" =>
                     /\ Snag(em'.out.wires[1]) = f.a
                     /\ Snag(em'.out.wires[2]) = f.b
                     /\ Snag(em'.out.wires[3]) = f.c]_vars
    /\ []((em.driver = "wired" /\ ~em.out.ok) =>
            \/ em.op \in {"alloc", "mul"} /\ em.out.err = "Closure"
            \/ em.op = "routine" /\ em.out.err \in {"Predict", "Execute"})

\* a wired mul returned 2, 2 and 3, which is no multiplication
C21_Witness ==
    /\ em.driver = "wired" /\ em.maybe = "Always"
    /\ em.op = "mul" /\ em.out.ok
    /\ em.out.wires = <<Arbitrary(2), Arbitrary(2), Arbitrary(3)>>

\* C22: in both emulator modes a routine call calls predict exactly once.  A
\* prediction Known(output, _) is returned as the result and execute is not
\* called; on Unknown(aux) execute is called exactly once, with that aux, and
\* its result is the result; an error of predict is returned and execute is
\* not called.
C22_RoutineShortCircuit ==
    [][\A pred \in Predictions : \A exec \in Executions :
         (EmRoutine(pred, exec) /\ em.driver \in {"wired", "wireless"}) =>
            /\ em'.predicts = 1
            /\ pred.kind = "Known" =>
                 em'.executes = 0 /\ em'.out = OkValue(pred.output)
            /\ pred.kind = "Unknown" =>
                 /\ em'.executes = 1
                 /\ em'.exec_aux = pred.aux
                 /\ em'.out = (IF exec.ok THEN OkValue(exec.output)
                               ELSE Failed("Execute"))
            /\ pred.kind = "Err" =>
                 em'.executes = 0 /\ em'.out = Failed("Predict")]_vars

\* a wired emulator returned the output of execute, called with the aux of
\* the prediction
C22_Witness ==
    /\ em.driver = "wired"
    /\ em.op = "routine"
    /\ em.predicts = 1 /\ em.executes = 1 /\ em.exec_aux = 2
    /\ em.out = OkValue(1)

AllUnit(wires) == \A i \in 1 .. Len(wires) : wires[i] = UnitWire

\* a step of alloc, mul, add, constant or enforce_zero with closures of any
\* result
EmPlainStep ==
    \/ \E f \in AllocClosures : EmAlloc(f)
    \/ \E f \in MulClosures : EmMul(f)
    \/ \E coeff \in EmuCoeffs : EmConstant(coeff)
    \/ \E lc \in EmuLCs(em.driver, em.maybe) : EmAdd(lc) \/ EmEnforceZero(lc)

\* C24: on the wireless emulator alloc, mul, add, constant and enforce_zero
\* always succeed and return unit wires (one, three, one, one, none), and
\* the value closure or combinator handed to them is never invoked, whatever
\* it would return; so a run with an Empty witness invokes no closure that
\* could read a witness value.
C24_WirelessNoOp ==
    /\ [][(EmPlainStep /\ em.driver = "wireless") =>
            /\ em'.out.ok
            /\ AllUnit(em'.out.wires)
            /\ Len(em'.out.wires) =
                 (CASE em'.op = "mul" -> 3
                    [] em'.op = "enforce_zero" -> 0
                    [] OTHER -> 1)
            /\ em'.closures = em.closures
            /\ em'.combinators = em.combinators]_vars
    /\ [](em.driver = "wireless" => em.closures = 0 /\ em.combinators = 0)

\* three calls on a wireless emulator without a witness, the last a mul
C24_Witness ==
    /\ em.driver = "wireless" /\ em.maybe = "Empty"
    /\ em.calls = 3
    /\ em.op = "mul"
    /\ em.out = OkWires(<<UnitWire, UnitWire, UnitWire>>)
    /\ em.closures = 0

(***************************************************************************)
(* StepIndex (step.rs)                                                     *)
(***************************************************************************)

\* application steps one application registers
MaxSteps == 4

\* InternalStepIndex::Rerandomize
Rerandomize == 0
NUM_INTERNAL_STEPS == 1

\* StepIndex::new
Application(i) == <<"Application", i>>
Internal(k) == <<"Internal", k>>

\* the indices a step may be declared with
StepIndices ==
    {Application(i) : i \in 0 .. (MaxSteps + 1)}
        \cup {Internal(k) : k \in 0 .. (NUM_INTERNAL_STEPS - 1)}

StepOk(value) == [ok |-> TRUE, value |-> value, err |-> ""]
StepErr(err) == [ok |-> FALSE, value |-> 0, err |-> err]

\* a bound check that admits the index equal to the number of steps
circuit_index_inclusive(step, num_application_steps) ==
    IF step[1] = "Internal" THEN StepOk(num_application_steps + step[2])
    ELSE IF step[2] > num_application_steps THEN StepErr("Initialization")
    ELSE StepOk(step[2])

\* StepIndex::circuit_index
circuit_index(step, num_application_steps) ==
    IF step[1] = "Internal" THEN StepOk(num_application_steps + step[2])
    ELSE IF step[2] >= num_application_steps THEN StepErr("Initialization")
    ELSE StepOk(step[2])

\* a check that only refuses indices already taken
assert_index_no_gap_check(step, expect_id) ==
    IF step[1] = "Internal" THEN StepErr("panic")
    ELSE IF step[2] < expect_id THEN StepErr("Initialization")
    ELSE StepOk(0)

\* StepIndex::assert_index
assert_index(step, expect_id) ==
    IF step[1] = "Internal" THEN StepErr("panic")
    ELSE IF step[2] # expect_id THEN StepErr("Initialization")
    ELSE StepOk(0)

\* a registration: the index of the step is checked against the number of
\* steps registered so far, and the step is added when the check returns Ok
RegisterStep(step) ==
    /\ Len(st.registered) < MaxSteps
    /\ LET checked == assert_index(step, Len(st.registered))
       IN  st' = [st EXCEPT !.op = "assert_index", !.query = step,
                            !.n = Len(st.registered), !.last = checked,
                            !.registered = IF checked.ok THEN Append(@, step[2])
                                           ELSE @]
    /\ UNCHANGED <<syVars, sb, em, pp, mc, lx>>

\* a step is looked up against a number of application steps
CircuitIndex(step, num_application_steps) ==
    /\ st' = [st EXCEPT !.op = "circuit_index", !.query = step,
                        !.n = num_application_steps,
                        !.last = circuit_index(step, num_application_steps)]
    /\ UNCHANGED <<syVars, sb, em, pp, mc, lx>>

StepInit == SyIdle /\ OtherIdle

StepNext ==
    \/ \E step \in StepIndices : RegisterStep(step)
    \/ \E step \in StepIndices : \E n \in 0 .. MaxSteps : CircuitIndex(step, n)

SpecStep == StepInit /\ [][StepNext]_vars

\* C25: for every number of application steps n, circuit_index maps the
\* application step of index i to Ok(i) when i < n and to an Initialization
\* error when i >= n, and the internal step of index k to Ok(n + k);
\* Rerandomize, the internal step 0, maps to n.
C25_CircuitIndex ==
    (st.op = "circuit_index") =>
        /\ st.query[1] = "Application" =>
             /\ st.query[2] < st.n => st.last = StepOk(st.query[2])
             /\ st.query[2] >= st.n =>
                  ~st.last.ok /\ st.last.err = "Initialization"
        /\ st.query[1] = "Internal" =>
             /\ st.last.ok /\ st.last.value = st.n + st.query[2]
             /\ st.query[2] = Rerandomize => st.last.value = st.n

\* the step of index 4 looked up against 4 application steps, once 4 steps
\* were registered
C25_Witness ==
    /\ st.op = "circuit_index"
    /\ st.query = Application(4) /\ st.n = 4
    /\ ~st.last.ok
    /\ Len(st.registered) = 4

\* C26: assert_index on an application step returns Ok exactly when the index
\* of the step equals the expected id, and an Initialization error otherwise;
\* registrations that each check the step against the number of steps
\* registered so far therefore accept the indices 0, 1, 2, ... in that order
\* and nothing else.
C26_SequentialRegistration ==
    /\ (st.op = "assert_index" /\ st.query[1] = "Application") =>
          /\ st.last.ok <=> st.query[2] = st.n
          /\ ~st.last.ok => st.last.err = "Initialization"
    /\ \A k \in 1 .. Len(st.registered) : st.registered[k] = k - 1

\* after the steps 0 and 1, the step 3 was refused
C26_Witness ==
    /\ st.registered = <<0, 1>>
    /\ st.op = "assert_index"
    /\ st.query = Application(3) /\ st.n = 2
    /\ st.last = StepErr("Initialization")

(***************************************************************************)
(* compute_p (_10_p.rs)                                                    *)
(***************************************************************************)

\* terms one call of compute_p folds onto f
MaxTerms == 3

\* polynomials of two coefficients over the field
PolyScale(p, k) == <<FMul(p[1], k), FMul(p[2], k)>>
PolyAdd(p, q) == <<FAdd(p[1], q[1]), FAdd(p[2], q[2])>>
PolyEval(p, x) == FAdd(p[1], FMul(p[2], x))

\* the generators of the Pedersen commitment, in a group written additively
\* over the field
G0 == 3
G1 == 2
H == 5
Commit(p, r) == FAdd(FAdd(FMul(G0, p[1]), FMul(G1, p[2])), FMul(H, r))

\* the polynomials with their blinds a call is given, each with its honest
\* commitment or with another element of the group
PolyBlinds == {<<<<1, 2>>, 2>>, <<<<4, 0>>, 6>>}
PTerms ==
    UNION {{[kind |-> k, poly |-> pb[1], blind |-> pb[2], commitment |-> c] :
               k \in {"s", "u"}, c \in {Commit(pb[1], pb[2]), 1}} :
           pb \in PolyBlinds}
PFs == {[poly |-> pb[1], blind |-> pb[2], commitment |-> Commit(pb[1], pb[2])] :
            pb \in PolyBlinds}
Betas == {0, 1, 3}

\* `let mut poly = f.poly.clone(); let mut blind = f.blind;` up to beta_power
PStart(beta, u, f) ==
    /\ pp.phase = "none"
    /\ pp' = [NoP EXCEPT !.phase = "acc", !.beta = beta, !.u = u, !.f = f,
                         !.poly = f.poly, !.blind = f.blind,
                         !.beta_power = 1]
    /\ UNCHANGED <<syVars, sb, em, st, mc, lx>>

\* the body shared by acc_s and acc_u
Acc(p, term) ==
    [p EXCEPT !.poly = PolyAdd(PolyScale(@, p.beta), term.poly),
              !.blind = FAdd(FMul(p.beta, @), term.blind),
              !.msm_scalars = Append(@, p.beta_power),
              !.msm_bases = Append(@, term.commitment),
              !.beta_power = FMul(@, p.beta),
              !.terms = Append(@, term)]

\* acc_s: a structured polynomial is folded
AccS(term) ==
    /\ pp.phase = "acc"
    /\ Len(pp.terms) < MaxTerms
    /\ term.kind = "s"
    /\ pp' = Acc(pp, term)
    /\ UNCHANGED <<syVars, sb, em, st, mc, lx>>

\* acc_u: an unstructured polynomial is folded
AccU(term) ==
    /\ pp.phase = "acc"
    /\ Len(pp.terms) < MaxTerms
    /\ term.kind = "u"
    /\ pp' = Acc(pp, term)
    /\ UNCHANGED <<syVars, sb, em, st, mc, lx>>

RECURSIVE Reverse(_)
Reverse(q) == IF q = <<>> THEN <<>> ELSE Append(Reverse(Tail(q)), Head(q))

\* the scalars left in the order they were pushed
FixScalars_unreversed(scalars) == scalars

\* `let n = msm_scalars.len() - 1; msm_scalars[..n].reverse();`
FixScalars(scalars) ==
    LET n == Len(scalars) - 1
    IN  Reverse(SubSeq(scalars, 1, n)) \o <<scalars[n + 1]>>

\* arithmetic::mul: the sum of scalar_i * base_i
RECURSIVE Msm(_, _)
Msm(scalars, bases) ==
    IF scalars = <<>> THEN 0
    ELSE FAdd(FMul(Head(scalars), Head(bases)), Msm(Tail(scalars), Tail(bases)))

\* from the push of f's commitment to the proof::P returned
PFinish ==
    /\ pp.phase = "acc"
    /\ LET scalars == FixScalars(Append(pp.msm_scalars, pp.beta_power))
           bases == Append(pp.msm_bases, pp.f.commitment)
       IN  pp' = [pp EXCEPT !.phase = "done",
                            !.msm_scalars = scalars,
                            !.msm_bases = bases,
                            !.commitment = Msm(scalars, bases),
                            !.v = PolyEval(pp.poly, pp.u)]
    /\ UNCHANGED <<syVars, sb, em, st, mc, lx>>

PInit == SyIdle /\ OtherIdle

PNext ==
    \/ \E beta \in Betas : \E f \in PFs : PStart(beta, 2, f)
    \/ \E term \in PTerms : AccS(term)
    \/ \E term \in PTerms : AccU(term)
    \/ PFinish

SpecP == PInit /\ [][PNext]_vars

\* beta^e in the field, beta^0 = 1
BetaPow(beta, e) == IF e = 0 THEN 1 ELSE (beta ^ e) % P

RECURSIVE SumField(_)
SumField(q) == IF q = <<>> THEN 0 ELSE FAdd(Head(q), SumField(Tail(q)))

\* beta^m * f0 + the sum over i of beta^(m-i) * vals[i], m the length of vals
LinearCombination(beta, f0, vals) ==
    LET m == Len(vals)
    IN  FAdd(FMul(BetaPow(beta, m), f0),
             SumField([i \in 1 .. m |-> FMul(BetaPow(beta, m - i), vals[i])]))

\* C27: compute_p having folded the terms t_1 .. t_m in order onto f, each
\* coefficient of poly is beta^m * f + sum_i beta^(m-i) * t_i of the
\* coefficients, blind is the same combination of the blinds, the scalars
\* after the reversal pair the commitment of t_i with beta^(m-i) and the
\* commitment of f with beta^m, and the commitment is the same combination
\* of the commitments; when every commitment given is the Pedersen
\* commitment of its polynomial and blind, so is the one returned.
C27_AccumulationConsistent ==
    (pp.phase = "done") =>
        LET m == Len(pp.terms)
            Of(field) == [i \in 1 .. m |-> pp.terms[i][field]]
            Coeff(k) == [i \in 1 .. m |-> pp.terms[i].poly[k]]
        IN  /\ \A k \in 1 .. 2 :
                 pp.poly[k] = LinearCombination(pp.beta, pp.f.poly[k], Coeff(k))
            /\ pp.blind = LinearCombination(pp.beta, pp.f.blind, Of("blind"))
            /\ Len(pp.msm_scalars) = m + 1 /\ Len(pp.msm_bases) = m + 1
            /\ \A i \in 1 .. m :
                 /\ pp.msm_scalars[i] = BetaPow(pp.beta, m - i)
                 /\ pp.msm_bases[i] = pp.terms[i].commitment
            /\ pp.msm_scalars[m + 1] = BetaPow(pp.beta, m)
            /\ pp.msm_bases[m + 1] = pp.f.commitment
            /\ pp.commitment =
                 LinearCombination(pp.beta, pp.f.commitment, Of("commitment"))
            /\ (\A i \in 1 .. m :
                  pp.terms[i].commitment
                      = Commit(pp.terms[i].poly, pp.terms[i].blind))
                 => pp.commitment = Commit(pp.poly, pp.blind)
            /\ pp.v = PolyEval(pp.poly, pp.u)

\* three different terms folded with beta = 3, a structured and an
\* unstructured one among them, all with honest commitments
C27_Witness ==
    /\ pp.phase = "done"
    /\ pp.beta = 3
    /\ Len(pp.terms) = 3
    /\ pp.terms[1].poly # pp.terms[2].poly
    /\ pp.terms[1].kind = "s" /\ pp.terms[3].kind = "u"
    /\ \A i \in 1 .. 3 :
         pp.terms[i].commitment = Commit(pp.terms[i].poly, pp.terms[i].blind)
    /\ pp.msm_scalars = <<2, 3, 1, 6>>

(***************************************************************************)
(* The maybe_cast macro (maybe_cast.rs)                                    *)
(***************************************************************************)

\* the largest integer literal the macro is invoked with
MaxLiteral == 17

\* usize, here of four bits
UsizeBits == 4
UsizeMax == 2 ^ UsizeBits - 1

\* input.base10_parse::<usize>(): the value, or -1 for the error of a literal
\* that does not fit
Base10Parse(input) == IF input > UsizeMax THEN -1 ELSE input

\* a range that includes its upper bound
InRange_inclusive(size, max_tuple_size) == size <= max_tuple_size

\* the range 2..max_tuple_size still yields `size`
InRange(size, max_tuple_size) == size < max_tuple_size

\* evaluate up to the construction of the iterator of impls
Evaluate(input) ==
    /\ mc.phase = "none"
    /\ LET parsed == Base10Parse(input) IN
       mc' = IF parsed < 0
             THEN [mc EXCEPT !.phase = "done", !.input = input,
                             !.result = "Err", !.err = "parse"]
             ELSE IF parsed < 2
             THEN [mc EXCEPT !.phase = "done", !.input = input,
                             !.max_tuple_size = parsed, !.result = "Err",
                             !.err = "max tuple size must be at least 2"]
             ELSE [mc EXCEPT !.phase = "impls", !.input = input,
                             !.max_tuple_size = parsed, !.size = 2]
    /\ UNCHANGED <<syVars, sb, em, st, pp, lx>>

\* generate_impl_for_size is entered for the next size of the range
GenerateImpl ==
    /\ mc.phase = "impls"
    /\ InRange(mc.size, mc.max_tuple_size)
    /\ mc' = [mc EXCEPT !.phase = "types", !.i = 0, !.generics = <<>>]
    /\ UNCHANGED <<syVars, sb, em, st, pp, lx>>

\* one turn of `for i in 0..size`: the identifier T{i} joins the impl
GenerateType ==
    /\ mc.phase = "types"
    /\ mc.i < mc.size
    /\ mc' = [mc EXCEPT !.generics = Append(@, mc.i), !.i = @ + 1]
    /\ UNCHANGED <<syVars, sb, em, st, pp, lx>>

\* the impl is quoted and joins the output
GenerateQuote ==
    /\ mc.phase = "types"
    /\ mc.i >= mc.size
    /\ mc' = [mc EXCEPT !.phase = "impls", !.impls = Append(@, mc.generics),
                        !.size = @ + 1, !.generics = <<>>, !.i = 0]
    /\ UNCHANGED <<syVars, sb, em, st, pp, lx>>

\* the range is exhausted: Ok(quote! { #(#impls)* })
EvaluateReturn ==
    /\ mc.phase = "impls"
    /\ ~InRange(mc.size, mc.max_tuple_size)
    /\ mc' = [mc EXCEPT !.phase = "done", !.result = "Ok"]
    /\ UNCHANGED <<syVars, sb, em, st, pp, lx>>

CastInit == SyIdle /\ OtherIdle

CastNext ==
    \/ \E input \in 0 .. MaxLiteral : Evaluate(input)
    \/ GenerateImpl
    \/ GenerateType
    \/ GenerateQuote
    \/ EvaluateReturn

SpecCast == CastInit /\ [][CastNext]_vars

\* C28 as stated: evaluate(n) returns an error exactly when n < 2.
C28_Original ==
    (mc.phase = "done") => (mc.result = "Err" <=> mc.input < 2)

\* C28 (amended): evaluate returns an error exactly when the literal n is
\* below 2 or does not fit a usize; otherwise it returns Ok having emitted,
\* in increasing order, one impl for each tuple size s with 2 <= s < n, on
\* the types T0 .. T(s-1), and no other impl; n = 2 emits nothing and n = 4
\* emits the impls of sizes 2 and 3 only.
C28_EmittedSizes ==
    (mc.phase = "done") =>
        /\ mc.result = "Err" <=> (mc.input < 2 \/ mc.input > UsizeMax)
        /\ mc.result = "Err" => mc.impls = <<>>
        /\ mc.result = "Ok" =>
             /\ Len(mc.impls) = mc.input - 2
             /\ \A k \in 1 .. Len(mc.impls) :
                  mc.impls[k] = [j \in 1 .. (k + 1) |-> j - 1]
        /\ mc.input = 2 => mc.result = "Ok" /\ mc.impls = <<>>
        /\ mc.input = 4 => mc.impls = <<<<0, 1>>, <<0, 1, 2>>>>

\* evaluate(4) returned the impls of the tuples of two and of three types
C28_Witness ==
    /\ mc.phase = "done" /\ mc.result = "Ok"
    /\ mc.input = 4
    /\ Len(mc.impls) = 2
    /\ Len(mc.impls[2]) = 3

(***************************************************************************)
(* Properties of the resolution of virtual wires                           *)
(***************************************************************************)

\* the slots a step brought from a positive refcount to zero
ResolvedNow ==
    {j \in Slots : vt.wires[j].refcount > 0 /\ vt'.wires[j].refcount = 0}

\* what the terms of slot i that name `target` add to it when the wire
\* resolves with the value v: the sum of v * coeff over those terms
Distributed(i, target) ==
    LET terms == vt.wires[i].terms
        v == vt.wires[i].value
    IN  SumField([k \in 1 .. Len(terms) |->
                     IF terms[k][1] = target THEN FMul(v, terms[k][2]) ELSE 0])

\* the number of terms of the slots of R that name `target`
References(R, target) ==
    Cardinality(UNION {{<<j, k>> : k \in {n \in 1 .. Len(vt.wires[j].terms) :
                                            vt.wires[j].terms[n][1] = target}}
                       : j \in R})

\* C29: when the drop of a handle brings the refcount of virtual wire i to
\* zero, the wire resolves: afterwards it has no terms, value zero and
\* refcount zero, and its slot is pushed onto the free list once, after the
\* slots of the wires its resolution resolved in turn, each of them cleared
\* and pushed once as well; a wire that survives has lost one reference per
\* term of a resolved wire naming it; and when no other wire resolves, every
\* polynomial slot and every surviving virtual wire has gained exactly the
\* sum of v * c over the terms (w, c) of wire i naming it, v the value wire i
\* had accumulated.
C29_Resolution ==
    [][\A i \in Slots :
         ((DropOrig(i) \/ DropClone(i)) /\ vt.wires[i].refcount = 1 /\ vt'.ok) =>
            LET R == ResolvedNow
                new == SubSeq(vt'.free, Len(vt.free) + 1, Len(vt'.free))
            IN  /\ i \in R
                /\ \A j \in R : vt'.wires[j] = [refcount |-> 0, terms |-> <<>>,
                                                value |-> 0]
                /\ SubSeq(vt'.free, 1, Len(vt.free)) = vt.free
                /\ Len(new) = Cardinality(R)
                /\ {new[k] + 1 : k \in 1 .. Len(new)} = R
                /\ new[Len(new)] = i - 1
                /\ \A j \in Slots \ R :
                     /\ vt'.wires[j].terms = vt.wires[j].terms
                     /\ vt'.wires[j].refcount =
                          vt.wires[j].refcount - References(R, <<"V", j - 1>>)
                /\ R = {i} =>
                     /\ \A p \in 1 .. Len(vt.a) :
                          vt'.a[p] = FAdd(vt.a[p], Distributed(i, <<"A", p - 1>>))
                     /\ \A p \in 1 .. Len(vt.b) :
                          vt'.b[p] = FAdd(vt.b[p], Distributed(i, <<"B", p - 1>>))
                     /\ \A p \in 1 .. Len(vt.c) :
                          vt'.c[p] = FAdd(vt.c[p], Distributed(i, <<"C", p - 1>>))
                     /\ \A j \in Slots \ R :
                          vt'.wires[j].value =
                              FAdd(vt.wires[j].value,
                                   Distributed(i, <<"V", j - 1>>))]_vars

\* one drop resolved two wires, both now on the free list, and a coefficient
\* of the polynomial received a value
C29_Witness ==
    /\ vt.ok
    /\ cascade >= 2
    /\ Len(vt.free) = 2 /\ Len(vt.wires) = 2
    /\ \E p \in 1 .. Len(vt.c) : p > 1 /\ vt.c[p] # 0

\* the times a slot is on the free list
OnFreeList(i) ==
    Cardinality({k \in 1 .. Len(vt.free) : vt.free[k] = i - 1})

\* C30: between driver operations a virtual-wire slot is on the free list if
\* and only if its refcount is 0, it is then on the list exactly once, with
\* no terms and the value zero; and the three assertions VirtualTable::alloc
\* makes on a slot it takes from the list have never failed.
C30_FreeListInvariant ==
    /\ \A i \in Slots :
         /\ OnFreeList(i) = (IF vt.wires[i].refcount = 0 THEN 1 ELSE 0)
         /\ vt.wires[i].refcount = 0 =>
              vt.wires[i].terms = <<>> /\ vt.wires[i].value = 0
    /\ \A k \in 1 .. Len(vt.free) : vt.free[k] + 1 \in Slots
    /\ vt.ok

\* two slots resolved by one drop; add has taken one of them from the free
\* list again and the other is still on it
C30_Witness ==
    /\ cascade >= 2
    /\ Len(vt.wires) = 2 /\ Len(vt.free) = 1
    /\ \E i, j \in Slots :
         /\ vt.wires[i].refcount > 0 /\ OnFreeList(i) = 0
         /\ vt.wires[j].refcount = 0 /\ OnFreeList(j) = 1

(***************************************************************************)
(* Properties of the evaluator's driver operations                         *)
(***************************************************************************)

\* the combinators eval and the circuit can pass to enforce_zero
Enforceable == Combinators \cup {Single(w) : w \in Usable}

\* this step is a successful enforce_zero run on the combinator lc
EnforcedWith(lc) ==
    /\ ev.linear_constraints < R_num_coeffs
    /\ \/ CEnforceZero(lc)
       \/ \E w \in Usable : lc = Single(w) /\ Output(w)
       \/ lc = Single(ONE) /\ FinalOne

\* the sum of coeff * gain over the add_term calls of lc on `target`, the
\* gain being the product of the gain calls made before the add_term
RECURSIVE Named(_, _, _)
Named(lc, target, gain) ==
    IF lc = <<>> THEN 0
    ELSE IF Head(lc)[1] = "gain"
         THEN Named(Tail(lc), target, FMul(gain, Head(lc)[2]))
         ELSE FAdd(IF Head(lc)[2] = target THEN FMul(Head(lc)[3], gain) ELSE 0,
                   Named(Tail(lc), target, gain))

\* C31: a successful enforce_zero adds, for every term on a virtual wire,
\* coefficient * current power of y to that wire's value field and nothing
\* else: no refcount, no term list and no free-list entry changes and no
\* virtual wire is created; a polynomial coefficient changes only by the
\* terms that name its allocated wire, so a term on a virtual wire reaches
\* no coefficient yet.
C31_EnforceDefers ==
    [][\A lc \in Enforceable :
         EnforcedWith(lc) =>
            /\ vt'.free = vt.free
            /\ Len(vt'.wires) = Len(vt.wires)
            /\ \A i \in Slots :
                 /\ vt'.wires[i].refcount = vt.wires[i].refcount
                 /\ vt'.wires[i].terms = vt.wires[i].terms
                 /\ vt'.wires[i].value =
                      FAdd(vt.wires[i].value,
                           FMul(Named(lc, <<"V", i - 1>>, 1), ev.current_y))
            /\ Len(vt'.a) = Len(vt.a) /\ Len(vt'.b) = Len(vt.b)
            /\ Len(vt'.c) = Len(vt.c)
            /\ \A p \in 1 .. Len(vt.a) :
                 /\ vt'.a[p] = FAdd(vt.a[p],
                                  FMul(Named(lc, <<"A", p - 1>>, 1), ev.current_y))
                 /\ vt'.b[p] = FAdd(vt.b[p],
                                  FMul(Named(lc, <<"B", p - 1>>, 1), ev.current_y))
                 /\ vt'.c[p] = FAdd(vt.c[p],
                                  FMul(Named(lc, <<"C", p - 1>>, 1), ev.current_y))]_vars

\* the circuit's enforce_zero named a live virtual wire that has terms of its
\* own: the weighted coefficient is pending in the wire's value
C31_Witness ==
    /\ op = "enforce_zero" /\ last = Ok /\ pc = "circuit" /\ deferred
    /\ \E i \in Slots :
         /\ vt.wires[i].refcount > 0
         /\ vt.wires[i].terms # <<>>
         /\ vt.wires[i].value # 0

\* C33: the routine method of the deferred evaluator runs predict once, on a
\* wireless emulator of its own, and then, whether the prediction is Known
\* or Unknown, runs execute once with the aux of the prediction and returns
\* what execute returned, also when a Known prediction carried another
\* output; an error of predict is returned without running execute.
C33_AlwaysSynthesized ==
    [][\A pred \in Predictions : \A exec \in Executions :
         (EmRoutine(pred, exec) /\ em.driver = "evaluator") =>
            /\ em'.predicts = 1
            /\ em'.predict_on = "wireless"
            /\ pred.kind \in {"Known", "Unknown"} =>
                 /\ em'.executes = 1
                 /\ em'.exec_aux = pred.aux
                 /\ em'.out = (IF exec.ok THEN OkValue(exec.output)
                               ELSE Failed("Execute"))
            /\ pred.kind = "Err" =>
                 em'.executes = 0 /\ em'.out = Failed("Predict")]_vars

\* the evaluator returned the output of execute after a prediction made on a
\* wireless emulator
C33_Witness ==
    /\ em.driver = "evaluator"
    /\ em.op = "routine"
    /\ em.predict_on = "wireless"
    /\ em.predicts = 1 /\ em.executes = 1 /\ em.exec_aux = 1
    /\ em.out = OkValue(2)

(***************************************************************************)
(* eval of circuits that only ask for wires: mul, alloc and routines, no   *)
(* virtual wire and no constraint of their own, under a Rank that the      *)
(* calls exhaust and under one that they do not.                           *)
(***************************************************************************)
GateRanks == {2, 4}

GatesInit ==
    /\ y \in Ys /\ key \in Keys
    /\ num_linear_constraints = 2
    /\ R_n \in GateRanks
    /\ R_num_coeffs = Rank_num_coeffs
    /\ budget = MaxCalls
    /\ SyStart
    /\ sb = NoBuilder
    /\ OtherIdle

GatesNext ==
    \/ EvalBegin
    \/ CMul
    \/ CAlloc
    \/ \E predicted \in {"Known", "Unknown", "Err"} : RoutineEnter(predicted)
    \/ RoutineReturn
    \/ CircuitReturn
    \/ Abort
    \/ FinalOne
    \/ EvalEnd

SpecGates == GatesInit /\ [][GatesNext]_vars

\* this step is the entry of a routine
RoutineCalled == \E predicted \in {"Known", "Unknown", "Err"} : RoutineEnter(predicted)

\* C32: Evaluator::routine empties available_b before the routine body runs,
\* so the first alloc of the body opens a fresh gate (or meets the gate
\* bound); the leg it took out is kept aside untouched while the body runs,
\* whatever the body allocates and whatever routines it calls in turn; and
\* on the successful return available_b is that leg again, the leg the body
\* left pending being dropped without reaching the circuit.
C32_RoutineIsolation ==
    [][/\ \A predicted \in {"Known", "Unknown", "Err"} :
            RoutineEnter(predicted) =>
               /\ ev'.available_b = None
               /\ predicted # "Err" => stack' = Append(stack, ev.available_b)
       /\ (CAlloc /\ op = "routine" /\ ev.available_b = None) =>
             \/ last' = MulErr
             \/ /\ ev'.multiplication_constraints
                     = ev.multiplication_constraints + 1
                /\ held' \ held = {<<"A", ev.multiplication_constraints>>}
       /\ (~RoutineCalled /\ ~RoutineReturn) => stack' = stack
       /\ RoutineReturn =>
             /\ ev'.available_b = stack[Len(stack)]
             /\ stack' = SubSeq(stack, 1, Len(stack) - 1)
             /\ held' = held
             /\ ev.available_b # None => ev.available_b \notin held']_vars

\* a routine called with the leg B(1) pending has returned: its alloc opened
\* gate 2, the B leg of gate 2 is gone and B(1) is pending again
C32_Witness ==
    /\ pc = "circuit" /\ last = Ok /\ stack = <<>>
    /\ ev.multiplication_constraints = 3
    /\ ev.available_b = <<"B", 1>>
    /\ held = {<<"A", 1>>, <<"A", 2>>}

\* the calls the circuit has made on the driver
CallsMade == MaxCalls - budget

\* every call the circuit has made was a successful alloc: each handed out
\* one wire, none of them the C leg only mul returns
OnlyAllocs ==
    /\ Started /\ pc = "circuit"
    /\ Cardinality(held) = CallsMade
    /\ \A w \in held : w[1] # "C"

\* C34: an alloc made while no leg is pending opens one multiplication gate
\* if the gate bound allows it, returns the A leg of the gate and keeps its
\* B leg pending, and fails with MultiplicationBoundExceeded otherwise,
\* changing nothing; an alloc made while a leg is pending returns that leg,
\* opens no gate, leaves the table alone and cannot fail; a mul leaves the
\* pending leg as it is; so after k allocs in a row from the start of the
\* circuit the evaluator has opened ceil(k/2) gates beside the key gate and a
\* leg is pending exactly when k is odd.
C34_AllocPairing ==
    /\ [](OnlyAllocs =>
            /\ ev.multiplication_constraints = 1 + (CallsMade + 1) \div 2
            /\ (ev.available_b # None) = (CallsMade % 2 = 1))
    /\ [][/\ CAlloc =>
               IF ev.available_b # None
               THEN /\ last' = Ok
                    /\ held' = held \cup {ev.available_b}
                    /\ ev' = [ev EXCEPT !.available_b = None]
                    /\ vt' = vt
               ELSE IF ev.multiplication_constraints < R_n
               THEN /\ last' = Ok
                    /\ held' = held \cup {<<"A", ev.multiplication_constraints>>}
                    /\ ev' = [ev EXCEPT
                                !.multiplication_constraints = @ + 1,
                                !.available_b =
                                    <<"B", ev.multiplication_constraints>>]
                    /\ Len(vt'.a) = Len(vt.a) + 1
                    /\ Len(vt'.b) = Len(vt.b) + 1
                    /\ Len(vt'.c) = Len(vt.c) + 1
               ELSE /\ last' = MulErr
                    /\ held' = held /\ ev' = ev /\ vt' = vt
          /\ CMul => ev'.available_b = ev.available_b]_vars

\* five allocs in a row: gates 1, 2 and 3 opened, the last B leg pending
C34_Witness ==
    /\ OnlyAllocs
    /\ CallsMade = 5
    /\ ev.multiplication_constraints = 4
    /\ ev.available_b = <<"B", 3>>

\* the legs kept aside: the pending leg and the legs saved by the routines
\* being executed
KeptLegs ==
    (IF ev.available_b # None THEN {ev.available_b} ELSE {})
        \cup {stack[k] : k \in {n \in 1 .. Len(stack) : stack[n] # None}}

\* the number of legs kept aside, counted with repetition
KeptCount ==
    (IF ev.available_b # None THEN 1 ELSE 0)
        + Cardinality({n \in 1 .. Len(stack) : stack[n] # None})

\* C38: no allocated wire is handed out twice.  Every successful alloc hands
\* the circuit one wire it did not have, every successful mul the three legs
\* of a gate no call has returned a leg of; the wires handed out belong to
\* gates opened after the key gate; and a leg kept aside, pending or saved
\* around a routine, is a B leg of such a gate that has not been handed out
\* and is kept aside once.
C38_NoWireTwice ==
    /\ [](Started =>
            /\ \A w \in held :
                 w[1] \in {"A", "B", "C"}
                   /\ 1 <= w[2] /\ w[2] < ev.multiplication_constraints
            /\ KeptLegs \cap held = {}
            /\ Cardinality(KeptLegs) = KeptCount
            /\ \A w \in KeptLegs :
                 w[1] = "B" /\ 1 <= w[2] /\ w[2] < ev.multiplication_constraints
                   /\ <<"A", w[2]>> \in held /\ <<"C", w[2]>> \notin held)
    /\ [][/\ (CAlloc /\ last' = Ok) =>
               /\ Cardinality(held' \ held) = 1
               /\ held \subseteq held'
          /\ (CMul /\ last' = Ok) =>
               /\ held' \ held = {<<"A", ev.multiplication_constraints>>,
                                  <<"B", ev.multiplication_constraints>>,
                                  <<"C", ev.multiplication_constraints>>}
               /\ held \subseteq held'
               /\ \A w \in held \cup KeptLegs :
                    w[2] # ev.multiplication_constraints
          /\ (~CAlloc /\ ~CMul) => held' = held]_vars

\* inside a routine called with B(1) pending the circuit was handed both legs
\* of gate 2 by two allocs, B(1) still saved
C38_Witness ==
    /\ pc = "circuit" /\ last = Ok
    /\ stack = << <<"B", 1>> >>
    /\ ev.available_b = None
    /\ held = {<<"A", 1>>, <<"A", 2>>, <<"B", 2>>}

(***************************************************************************)
(* The LinearExpression accumulators: TermCollector and TermEnforcer of    *)
(* s/sy.rs and WireEvalSum of s/common.rs, driven call by call.            *)
(***************************************************************************)
\* add_term and gain calls made on one accumulator
MaxLxCalls == 3

\* the table a TermCollector or a TermEnforcer works on: two gates and one
\* virtual wire held by the circuit
LxTable ==
    [wires |-> <<NewVirtualWire>>, free |-> <<>>, a |-> <<0, 0>>,
     b |-> <<0, 0>>, c |-> <<0, 0>>, ok |-> TRUE]

\* WireEval::Value(v), WireEval::One
WireEvalValue(v) == <<"Value", v>>
WireEvalOne == <<"One", 0>>

\* the wires a call can name, the coefficients and the gains it can pass
LxWires(kind) ==
    IF kind = "WireEvalSum" THEN {WireEvalValue(3), WireEvalOne}
    ELSE {<<"A", 1>>, ONE, <<"V", 0>>}
LxCoeffs == {1, P - 1}
LxGains == {2, 3}

\* TermCollector::new
TermCollector_new ==
    [NoLx EXCEPT !.kind = "TermCollector", !.gain = 1, !.table = LxTable]

\* TermEnforcer(table, coeff)
TermEnforcer_new(coeff) ==
    [NoLx EXCEPT !.kind = "TermEnforcer", !.gain = coeff, !.start = coeff,
                 !.table = LxTable]

\* WireEvalSum::new
WireEvalSum_new(one) ==
    [NoLx EXCEPT !.kind = "WireEvalSum", !.value = 0, !.one = one, !.gain = 1]

\* TermCollector::add_term
TermCollector_add_term(l, wire, coeff) ==
    [l EXCEPT !.table = IncrementRefcount(@, wire),
              !.terms = Append(@, <<wire, FMul(coeff, l.gain)>>)]

\* TermEnforcer::add_term
TermEnforcer_add_term(l, wire, coeff) ==
    [l EXCEPT !.table = VT_add(@, wire, FMul(coeff, l.gain))]

\* an add_term that takes WireEval::One for the field's one
WireEvalSum_add_term_field_one(l, wire_eval, coeff) ==
    [l EXCEPT !.value =
        FAdd(@, FMul(IF wire_eval[1] = "Value" THEN wire_eval[2] ELSE 1,
                     FMul(coeff, l.gain)))]

\* WireEvalSum::add_term
WireEvalSum_add_term(l, wire_eval, coeff) ==
    [l EXCEPT !.value =
        FAdd(@, FMul(IF wire_eval[1] = "Value" THEN wire_eval[2] ELSE l.one,
                     FMul(coeff, l.gain)))]

\* a gain that replaces the gain set before
Lx_gain_replacing(l, coeff) == [l EXCEPT !.gain = coeff]

\* gain of the three accumulators: `self.gain = self.gain * coeff`
Lx_gain(l, coeff) == [l EXCEPT !.gain = FMul(l.gain, coeff)]

Lx_add_term(l, wire, coeff) ==
    CASE l.kind = "TermCollector" -> TermCollector_add_term(l, wire, coeff)
      [] l.kind = "TermEnforcer" -> TermEnforcer_add_term(l, wire, coeff)
      [] OTHER -> WireEvalSum_add_term(l, wire, coeff)

LxIdle == lx.kind = "none"

NewTermCollector ==
    /\ LxIdle
    /\ lx' = TermCollector_new
    /\ UNCHANGED <<syVars, sb, em, st, pp, mc>>

NewTermEnforcer(coeff) ==
    /\ LxIdle
    /\ lx' = TermEnforcer_new(coeff)
    /\ UNCHANGED <<syVars, sb, em, st, pp, mc>>

NewWireEvalSum(one) ==
    /\ LxIdle
    /\ lx' = WireEvalSum_new(one)
    /\ UNCHANGED <<syVars, sb, em, st, pp, mc>>

LxAddTerm(wire, coeff) ==
    /\ ~LxIdle
    /\ Len(lx.calls) < MaxLxCalls
    /\ lx' = [Lx_add_term(lx, wire, coeff)
                EXCEPT !.calls = Append(@, <<"term", wire, coeff>>)]
    /\ UNCHANGED <<syVars, sb, em, st, pp, mc>>

LxGain(coeff) ==
    /\ ~LxIdle
    /\ Len(lx.calls) < MaxLxCalls
    /\ lx' = [Lx_gain(lx, coeff) EXCEPT !.calls = Append(@, <<"gain", coeff>>)]
    /\ UNCHANGED <<syVars, sb, em, st, pp, mc>>

LxInit == SyIdle /\ OtherIdle

LxNext ==
    \/ NewTermCollector
    \/ \E coeff \in {1, 3} : NewTermEnforcer(coeff)
    \/ \E one \in {2, 5} : NewWireEvalSum(one)
    \/ \E wire \in LxWires(lx.kind) : \E coeff \in LxCoeffs : LxAddTerm(wire, coeff)
    \/ \E coeff \in LxGains : LxGain(coeff)

SpecLx == LxInit /\ [][LxNext]_vars

(***************************************************************************)
(* Properties of the accumulators                                          *)
(***************************************************************************)
\* the product of the coefficients of the gain calls made before call n
RECURSIVE GainBefore(_, _)
GainBefore(calls, n) ==
    IF n <= 1 THEN 1
    ELSE FMul(GainBefore(calls, n - 1),
              IF calls[n - 1][1] = "gain" THEN calls[n - 1][2] ELSE 1)

\* the positions of the add_term calls, in order
TermPositions(calls) ==
    SelectSeq([k \in 1 .. Len(calls) |-> k], LAMBDA k : calls[k][1] = "term")

\* the sum, over the add_term calls on `wire`, of the coefficient of the
\* call times the gains called before it
Contribution(calls, wire) ==
    SumField([k \in 1 .. Len(calls) |->
                 IF calls[k][1] = "term" /\ calls[k][2] = wire
                 THEN FMul(calls[k][3], GainBefore(calls, k)) ELSE 0])

\* the value a table holds for a wire
LxSlot(t, w) ==
    CASE w[1] = "A" -> t.a[w[2] + 1]
      [] w[1] = "B" -> t.b[w[2] + 1]
      [] w[1] = "C" -> t.c[w[2] + 1]
      [] OTHER      -> t.wires[w[2] + 1].value

\* C35: in TermCollector, TermEnforcer and WireEvalSum a term added with
\* coefficient c contributes with c times the product of the gains called
\* before it (times the coefficient a TermEnforcer was built with), and a
\* gain call changes nothing that was accumulated before it.
C35_NestedGains ==
    /\ [](/\ lx.kind = "TermCollector" =>
               LET T == TermPositions(lx.calls) IN
               /\ Len(lx.terms) = Len(T)
               /\ \A j \in 1 .. Len(T) :
                    lx.terms[j] = <<lx.calls[T[j]][2],
                                    FMul(lx.calls[T[j]][3],
                                         GainBefore(lx.calls, T[j]))>>
          /\ lx.kind = "TermEnforcer" =>
               \A w \in LxWires(lx.kind) :
                    LxSlot(lx.table, w)
                        = FMul(lx.start, Contribution(lx.calls, w))
          /\ lx.kind = "WireEvalSum" =>
               lx.value = FAdd(FMul(3, Contribution(lx.calls, WireEvalValue(3))),
                               FMul(lx.one, Contribution(lx.calls, WireEvalOne))))
    /\ [][\A coeff \in LxGains :
            LxGain(coeff) =>
               /\ lx'.terms = lx.terms
               /\ lx'.table = lx.table
               /\ lx'.value = lx.value]_vars

\* a term added to a WireEvalSum after gain(2) and gain(3) counts six times
C35_Witness ==
    /\ lx.kind = "WireEvalSum" /\ lx.one = 5
    /\ lx.calls = << <<"gain", 2>>, <<"gain", 3>>, <<"term", WireEvalOne, 1>> >>
    /\ lx.value = (5 * 6) % P

(***************************************************************************)
(* The ONE wire under the deferred evaluator and under the accumulator of  *)
(* the immediate evaluators: either eval of sy.rs is run on a circuit, or  *)
(* an accumulator is driven.                                               *)
(***************************************************************************)
OneNext ==
    \/ LxIdle /\ Next
    \/ pc = "start" /\ y # 0 /\ LxNext

SpecOne == Init /\ [][OneNext]_vars

\* the add_term calls of a combinator on a wire
TermsOn(lc, w) ==
    Cardinality({k \in 1 .. Len(lc) : lc[k][1] = "term" /\ lc[k][2] = w})

\* C36: ONE is the index C(0) without a table.  Under the deferred evaluator
\* cloning ONE, dropping it and registering it for a term list leave the
\* table as it is, and an add whose combinator names ONE counts references
\* for the virtual wires it names only; the C leg of the key gate, the first
\* gate of eval, is the wire C(0) as well, so the key constraint and every
\* enforced term on ONE accumulate into the backward slot c[0].  In the
\* immediate evaluators WireEvalSum::add_term takes for WireEval::One the
\* value `one` the accumulator was built with, which never changes.
C36_OneSentinel ==
    /\ [](/\ Started /\ vt.ok =>
               /\ WireClone(vt, ONE) = vt
               /\ WireDrop(vt, ONE) = vt
               /\ IncrementRefcount(vt, ONE) = vt
          /\ lx.kind = "WireEvalSum" =>
               lx.value = FAdd(FMul(3, Contribution(lx.calls, WireEvalValue(3))),
                               FMul(lx.one, Contribution(lx.calls, WireEvalOne))))
    /\ [][/\ EvalBegin /\ pc' = "circuit" =>
               /\ Ev_mul(NewEvaluator(num_linear_constraints = 0), vt).wires[3] = ONE
               /\ vt'.c = <<FMul(FNeg(key), weights'[1])>>
               /\ LxSlot(vt', ONE) = vt'.c[1]
          /\ \A lc \in Combinators :
               (CAdd(lc) /\ vt'.ok) =>
                  \A i \in Slots :
                     (vt.wires[i].refcount > 0) =>
                        vt'.wires[i].refcount
                           = vt.wires[i].refcount + TermsOn(lc, <<"V", i - 1>>)
          /\ \A lc \in Enforceable :
               EnforcedWith(lc) =>
                  vt'.c[1] = FAdd(vt.c[1],
                                  FMul(Named(lc, ONE, 1), ev.current_y))
          /\ \A wire \in LxWires(lx.kind) : \A coeff \in LxCoeffs :
               (LxAddTerm(wire, coeff) /\ lx.kind = "WireEvalSum") =>
                  /\ lx'.one = lx.one
                  /\ wire = WireEvalOne =>
                       lx'.value = FAdd(lx.value,
                                        FMul(lx.one, FMul(coeff, lx.gain)))
          /\ \A coeff \in LxGains : LxGain(coeff) => lx'.one = lx.one]_vars

\* the circuit built a virtual wire from a term on ONE alone, enforced it
\* and dropped it: its resolution reached c[0], which held the key
\* constraint's term on the C leg of the key gate already
C36_Witness ==
    /\ pc = "circuit" /\ vt.ok /\ held = {}
    /\ budget = MaxCalls - 4
    /\ Len(vt.wires) = 1 /\ vt.free = <<0>>
    /\ Len(weights) = 2 /\ deferred
    /\ vt.c[1] # FMul(FNeg(key), weights[1])

(***************************************************************************)
(* Properties of eval as a whole                                           *)
(***************************************************************************)

\* C37: at y # 0 every successful enforce_zero, of the key constraint, of
\* the circuit, of an output or of ONE, counts one constraint; the final
\* constraint is followed by the comparison of the count with
\* num_linear_constraints: when its enforce_zero is refused the evaluation
\* ends with LinearBoundExceeded, when the count differs it panics, and only
\* when the count agrees does the evaluation go on; a panic is final; so
\* eval returns Ok only after exactly num_linear_constraints constraints.
C37_CountAgreement ==
    /\ [](/\ Started => ev.linear_constraints = Len(weights)
          /\ (y # 0 /\ pc \in {"dropping", "done"} /\ result = Ok) =>
                Len(weights) = num_linear_constraints
          /\ pc = "panic" => result # Ok /\ result[1] = "Panic")
    /\ [][/\ Len(weights') # Len(weights) =>
               /\ Len(weights') = Len(weights) + 1
               /\ EvalBegin \/ EnforceCall
          /\ FinalOne =>
               IF ev.linear_constraints = R_num_coeffs
               THEN pc' = "unwind" /\ result' = LinErr
               ELSE IF Len(weights) + 1 = num_linear_constraints
               THEN pc' = "dropping" /\ result' = result
               ELSE pc' = "panic"
                      /\ result' = <<"Panic", "linear_constraints">>
          /\ pc = "panic" => pc' = "panic" /\ result' = result]_vars

\* a circuit of two gates and no constraint under a count of three: the key
\* constraint and ONE make two, and the assertion fails
C37_Witness ==
    /\ pc = "panic" /\ result = <<"Panic", "linear_constraints">>
    /\ num_linear_constraints = 3 /\ Len(weights) = 2
    /\ ev.multiplication_constraints = 2

\* a polynomial of zeros of the size of the table's
ZeroLike(t) ==
    [a |-> [p \in 1 .. Len(t.a) |-> 0], b |-> [p \in 1 .. Len(t.b) |-> 0],
     c |-> [p \in 1 .. Len(t.c) |-> 0]]

\* the polynomial with every value pending in slots 1 .. n distributed
\* through the stored terms
RECURSIVE Settled(_, _, _)
Settled(t, d, n) ==
    IF n = 0 THEN d
    ELSE Settled(t, DirectTerms(t, d, t.wires[n].terms, t.wires[n].value), n - 1)

\* the coefficients the table stands for: those written, and those pending
\* in the virtual wires
Full(t) == Settled(t, [a |-> t.a, b |-> t.b, c |-> t.c], Len(t.wires))

\* what one unit on virtual wire i - 1 stands for
Expansion(t, i) == DirectTerm(t, ZeroLike(t), <<"V", i - 1>>, 1)

\* this step drops a handle
DropStep == \E i \in Slots : DropOrig(i) \/ DropClone(i)

\* C39: the coefficients the table stands for, written or pending, are at
\* every moment those of the constraints enforced so far, each with its
\* virtual wires expanded (the powers of y being those of a count that did
\* not underflow); a drop of a handle or of a clone, whenever it
\* happens and whatever it resolves, changes neither these coefficients nor
\* what any wire the circuit can still name stands for, so the effect of
\* every later call is the same; hence the coefficients eval returns depend
\* on the sequence of mul, alloc, add and enforce_zero calls alone and not on
\* where the drops fall among them.
C39_DropOrderIndependent ==
    /\ [](/\ (Started /\ vt.ok /\ num_linear_constraints > 0) =>
                Full(vt) = direct
          /\ (Started /\ vt.ok /\ num_linear_constraints > 0
                 /\ Len(vt.free) = Len(vt.wires)) =>
                vt.a = direct.a /\ vt.b = direct.b /\ vt.c = direct.c)
    /\ [][(DropStep /\ vt'.ok) =>
            /\ Full(vt') = Full(vt)
            /\ direct' = direct /\ ev' = ev
            /\ \A j \in Slots :
                 (orig'[j] \/ clones'[j] > 0) =>
                    Expansion(vt', j) = Expansion(vt, j)]_vars

\* the handle add returned was dropped in the middle of the circuit while
\* an enforced value was pending in its wire, kept unresolved by a clone or
\* by the terms of another wire
C39_Witness ==
    /\ vt.ok /\ pc = "circuit" /\ deferred
    /\ num_linear_constraints > 0
    /\ \E i \in Slots :
         /\ ~orig[i]
         /\ vt.wires[i].refcount > 0
         /\ vt.wires[i].value # 0
         /\ vt.wires[i].terms # <<>>

\* the slots named by the stored terms of the slots of S
NamedSlots(t, S) ==
    UNION {{t.wires[i].terms[k][1][2] + 1 :
               k \in {n \in 1 .. Len(t.wires[i].terms) :
                         IsVirtual(t.wires[i].terms[n][1])}} : i \in S}

\* the slots reached from S along at most n stored references, one at least
RECURSIVE Reach(_, _, _)
Reach(t, S, n) ==
    IF n = 0 \/ S = {} THEN {}
    ELSE NamedSlots(t, S) \cup Reach(t, NamedSlots(t, S), n - 1)

\* the stored terms of the table
TotalTerms(t) == SumSeq([i \in 1 .. Len(t.wires) |-> Len(t.wires[i].terms)])

\* C40: the stored references among the virtual wires never form a cycle:
\* the terms of a wire are set by the add that creates it, name only wires
\* the circuit held at that call, stay as they are until the wire resolves,
\* and each stored reference keeps the wire it names unresolved; so the
\* cascade of a drop ends, taking the terms of each wire it resolves, and
\* no other, out of the table.
C40_ResolutionTerminates ==
    /\ [](/\ (Started /\ vt.ok) =>
               \A i \in Slots :
                  /\ i \notin Reach(vt, {i}, Len(vt.wires))
                  /\ NamedSlots(vt, {i}) \subseteq Slots
                  /\ \A j \in NamedSlots(vt, {i}) : vt.wires[j].refcount > 0
                  /\ vt.wires[i].refcount = 0 => vt.wires[i].terms = <<>>)
    /\ [][/\ \A lc \in Combinators :
               (CAdd(lc) /\ vt'.ok) =>
                  \E new \in 1 .. Len(vt'.wires) :
                     /\ new > Len(vt.wires) \/ vt.wires[new].refcount = 0
                     /\ vt'.wires[new].refcount > 0
                     /\ NamedSlots(vt', {new}) \subseteq
                            {j \in Slots : Alive(j)}
                     /\ \A i \in Slots \ {new} :
                          vt'.wires[i].terms = vt.wires[i].terms
          /\ \A i \in Slots :
               vt.wires[i].refcount > 0 =>
                  \/ vt'.wires[i].terms = vt.wires[i].terms
                  \/ vt'.wires[i].terms = <<>> /\ vt'.wires[i].refcount = 0
                  \/ ~vt'.ok
          /\ (DropStep /\ vt'.ok) =>
               /\ TotalTerms(vt) - TotalTerms(vt')
                    = SumSeq([i \in 1 .. Len(vt.wires) |->
                                 IF i \in ResolvedNow
                                 THEN Len(vt.wires[i].terms) ELSE 0])
               /\ \A i \in Slots \ ResolvedNow :
                    vt'.wires[i].terms = vt.wires[i].terms]_vars

\* a wire whose handle is gone is kept unresolved by the reference stored
\* in the terms of a later wire
C40_Witness ==
    /\ vt.ok /\ pc = "circuit"
    /\ \E i, j \in Slots :
         /\ i # j
         /\ j \in NamedSlots(vt, {i})
         /\ ~Alive(j) /\ vt.wires[j].refcount > 0
         /\ Alive(i)
====
